---------------------------- MODULE Spec2Model ----------------------------
(***************************************************************************)
(* Model of the insight-agent (src/src/ai/insight-agent/main_vertex.py):   *)
(* the fraud pre-screen, the JSON response recovery, the prompt templates  *)
(* and the three analysis endpoints, served one at a time and by several   *)
(* threads; of the normalizer of the UI (src/ui/budget_coach_app.py); of   *)
(* the transaction forwarder (src/src/mcp-server/main.py); of the          *)
(* transaction monitoring agent (src/src/ai/transaction-monitoring-agent/  *)
(* main.py) and of the spending route (src/src/ai/insight-agent/routes/    *)
(* spending.py).                                                           *)
(*                                                                         *)
(* Texts are sequences of lexical units.  A unit is either one character   *)
(* that matters to the code (brace, bracket, quote, backslash, backtick,   *)
(* colon, comma, blank, newline) or a maximal run of other characters      *)
(* ("summary", "ok", "json", "1").  None of the algorithms looks inside    *)
(* such a run, except the fence stripper, which looks for the runs "json"  *)
(* and "JSON" after three backticks.                                       *)
(*                                                                         *)
(* Amounts are integers (cents).  mean/pstdev comparisons are done exactly *)
(* by cross-multiplication; the one place where double rounding decides    *)
(* the outcome (an amount exactly equal to the real-valued threshold) is   *)
(* the flag fp_low, set from the outcomes measured on the lists concerned. *)
(***************************************************************************)
EXTENDS Integers, Sequences, FiniteSets, TLC

VARIABLES
    cfg,        \* process configuration read from the environment at import
    fp_low,     \* TRUE: the double threshold rounds below its real value
    fl_txns,    \* pre-screen: the transaction list given to the filter
    fl_fast,    \* pre-screen: the fast_flag argument
    fl_pc,      \* pre-screen: "build" | "done"
    fl_out,     \* pre-screen: the returned list
    fl_thr,     \* pre-screen: the threshold the filter computed
    rec_in,     \* response recovery: the parts the raw model text is made of
    rec_bl,     \* response recovery: the precomputed heuristic object passed in
    rec_pc,     \* response recovery: "input" | "parsed" | "extracted" | "handled"
    rec_out,    \* response recovery: result of the applied function
    pc,         \* request: "idle" | "calling" | "done"
    req,        \* request: endpoint, JSON body and query string
    upstream,   \* request: how the hosted model answers successive attempts
    calls,      \* request: number of model.generate_content calls made
    local,      \* request: the handler's locals alive across the model call
    resp,       \* request: the response sent
    yaml,       \* prompts: TRUE when the YAML library could be imported
    file,       \* prompts: what prompts.yaml holds on disk now
    PROMPTS,    \* prompts: the module-level template table
    pr_pc,      \* prompts: "off" | "import" | "loaded" | "ready" | "rendered"
    pr_req,     \* prompts: name and keyword arguments of the last render_prompt
    pr_out,     \* prompts: result of the last render_prompt
    nz_raw,     \* normalizer: the raw records fetched from upstream
    nz_acct,    \* normalizer: the caller's account id
    nz_pc,      \* normalizer: "off" | "build" | "done"
    nz_out,     \* normalizer: result of transform_for_agent
    now,        \* load: the wall clock, in seconds
    threads,    \* load: position of each request thread of the process
    dispatched, \* load: the clock readings at which generate_content was called
    fr_txns,    \* bl_fraud: the transaction list given to it
    fr_pc,      \* bl_fraud: "off" | "build" | "done"
    fr_out,     \* bl_fraud: the returned object
    fw_pc,      \* forwarder: "off" | "idle" | "sent" | "done"
    fw_req,     \* forwarder: account id and Authorization header of the request
    fw_sent,    \* forwarder: the requests made to the transaction-history service
    fw_up,      \* forwarder: how the transaction-history service answered
    fw_resp,    \* forwarder: the response sent
    last_seen_transaction_id,  \* monitor: the module-level global
    pl_pc,      \* monitor: "off" | "start" | "poll" | "analyze" | "stopped"
    pl_resp,    \* monitor: what the last poll received
    pl_ret,     \* monitor: what the last get_new_transactions returned
    pl_prev,    \* monitor: last_seen_transaction_id when the last poll began
    pl_reported,\* monitor: ids returned by the polls before the last one
    pl_after_failure, \* monitor: the poll before the last failed or got no list
    sp_txns,    \* analyze_spending: body["transactions"]
    sp_pc,      \* analyze_spending: "off" | "build" | "done"
    sp_out      \* analyze_spending: the totals computed by the loop, and net

prompt_vars == <<yaml, file, PROMPTS, pr_pc, pr_req, pr_out>>
norm_vars == <<nz_raw, nz_acct, nz_pc, nz_out>>
load_vars == <<now, threads, dispatched>>
fraud_vars == <<fr_txns, fr_pc, fr_out>>
forward_vars == <<fw_pc, fw_req, fw_sent, fw_up, fw_resp>>
poll_vars == <<last_seen_transaction_id, pl_pc, pl_resp, pl_ret, pl_prev, pl_reported,
               pl_after_failure>>
route_vars == <<sp_txns, sp_pc, sp_out>>
more_vars == <<fraud_vars, forward_vars, poll_vars, route_vars>>
beside_fraud == <<forward_vars, poll_vars, route_vars>>
beside_forward == <<fraud_vars, poll_vars, route_vars>>
beside_poll == <<fraud_vars, forward_vars, route_vars>>
beside_route == <<fraud_vars, forward_vars, poll_vars>>
aux_vars == <<prompt_vars, norm_vars, load_vars, more_vars>>

vars == <<cfg, fp_low, fl_txns, fl_fast, fl_pc, fl_out, fl_thr, rec_in, rec_bl, rec_pc, rec_out,
          pc, req, upstream, calls, local, resp, aux_vars>>

-----------------------------------------------------------------------------
(* Lexical units *)

QUOTE == "\""
BSLASH == "\\"
\* the backtick character (written out: a backtick cannot occur in a string here)
TICK == "BACKTICK"
NL == "\n"
SP == " "

Whitespace == {SP, NL}
Punct == {"{", "}", "[", "]", ":", ","}
NumberUnits == {"0", "1", "42"}
LiteralUnits == {"null", "true", "false"}

RECURSIVE DropLeadingWs(_)
DropLeadingWs(s) ==
    IF s # <<>> /\ Head(s) \in Whitespace THEN DropLeadingWs(Tail(s)) ELSE s

RECURSIVE DropTrailingWs(_)
DropTrailingWs(s) ==
    IF s # <<>> /\ s[Len(s)] \in Whitespace
    THEN DropTrailingWs(SubSeq(s, 1, Len(s) - 1))
    ELSE s

\* str.strip()
Strip(s) == DropTrailingWs(DropLeadingWs(s))

StartsWithAt(s, i, pat) ==
    /\ i + Len(pat) - 1 <= Len(s)
    /\ SubSeq(s, i, i + Len(pat) - 1) = pat

\* str.replace(pat, ""): one left-to-right pass over non-overlapping matches
RECURSIVE RemoveAllFrom(_, _, _)
RemoveAllFrom(s, i, pat) ==
    IF i > Len(s) THEN <<>>
    ELSE IF StartsWithAt(s, i, pat) THEN RemoveAllFrom(s, i + Len(pat), pat)
    ELSE <<s[i]>> \o RemoveAllFrom(s, i + 1, pat)

RemoveAll(s, pat) == RemoveAllFrom(s, 1, pat)

Fence == <<TICK, TICK, TICK>>
FenceJsonLower == Fence \o <<"json">>
FenceJsonUpper == Fence \o <<"JSON">>

\* _clean_fences
CleanFences(text) ==
    Strip(RemoveAll(RemoveAll(RemoveAll(Strip(text), FenceJsonLower),
                              FenceJsonUpper), Fence))

-----------------------------------------------------------------------------
(* _extract_balanced_json *)

NoneStr == [found |-> FALSE, str |-> <<>>]

RECURSIVE FirstOpener(_, _)
FirstOpener(s, i) ==
    IF i > Len(s) THEN 0
    ELSE IF s[i] \in {"{", "["} THEN i
    ELSE FirstOpener(s, i + 1)

\* the scan without the string-literal state
RECURSIVE BalancedScan_NoStrings(_, _, _, _, _, _)
BalancedScan_NoStrings(s, start, j, depth, in_str, esc) ==
    LET open_ch == s[start]
        close_ch == IF open_ch = "{" THEN "}" ELSE "]"
    IN  IF j > Len(s) THEN NoneStr
        ELSE IF s[j] = open_ch
             THEN BalancedScan_NoStrings(s, start, j + 1, depth + 1, in_str, esc)
        ELSE IF s[j] = close_ch THEN
            IF depth - 1 = 0
            THEN [found |-> TRUE, str |-> SubSeq(s, start, j)]
            ELSE BalancedScan_NoStrings(s, start, j + 1, depth - 1, in_str, esc)
        ELSE BalancedScan_NoStrings(s, start, j + 1, depth, in_str, esc)

\* the second loop of _extract_balanced_json, from position j
RECURSIVE BalancedScan(_, _, _, _, _, _)
BalancedScan(s, start, j, depth, in_str, esc) ==
    LET open_ch == s[start]
        close_ch == IF open_ch = "{" THEN "}" ELSE "]"
    IN  IF j > Len(s) THEN NoneStr
        ELSE IF esc THEN BalancedScan(s, start, j + 1, depth, in_str, FALSE)
        ELSE IF s[j] = BSLASH THEN BalancedScan(s, start, j + 1, depth, in_str, TRUE)
        ELSE IF s[j] = QUOTE THEN BalancedScan(s, start, j + 1, depth, ~in_str, FALSE)
        ELSE IF in_str THEN BalancedScan(s, start, j + 1, depth, in_str, FALSE)
        ELSE IF s[j] = open_ch THEN BalancedScan(s, start, j + 1, depth + 1, in_str, FALSE)
        ELSE IF s[j] = close_ch THEN
            IF depth - 1 = 0
            THEN [found |-> TRUE, str |-> SubSeq(s, start, j)]
            ELSE BalancedScan(s, start, j + 1, depth - 1, in_str, FALSE)
        ELSE BalancedScan(s, start, j + 1, depth, in_str, FALSE)

ExtractBalancedJson(s) ==
    LET start == FirstOpener(s, 1)
    IN  IF s = <<>> \/ start = 0 THEN NoneStr
        ELSE BalancedScan(s, start, start, 0, FALSE, FALSE)

-----------------------------------------------------------------------------
(* json.loads: a lexer into tokens, then a recursive-descent recogniser.   *)
(* A token is a sequence of units: a punctuation unit, a number or literal *)
(* unit, or QUOTE followed by the decoded content of a string.  The parsed *)
(* value is represented by its token sequence.                             *)

EscapableUnits == {QUOTE, BSLASH, "/"}

LexFail == [ok |-> FALSE, tok |-> <<>>, next |-> 0]

RECURSIVE LexString(_, _, _)
LexString(s, i, acc) ==
    IF i > Len(s) THEN LexFail
    ELSE IF s[i] = QUOTE THEN [ok |-> TRUE, tok |-> <<QUOTE>> \o acc, next |-> i + 1]
    ELSE IF s[i] = BSLASH THEN
        IF i + 1 <= Len(s) /\ s[i + 1] \in EscapableUnits
        THEN LexString(s, i + 2, Append(acc, s[i + 1]))
        ELSE LexFail
    ELSE IF s[i] = NL THEN LexFail
    ELSE LexString(s, i + 1, Append(acc, s[i]))

BadTokens == [ok |-> FALSE, toks |-> <<>>]

RECURSIVE Lex(_, _, _)
Lex(s, i, acc) ==
    IF i > Len(s) THEN [ok |-> TRUE, toks |-> acc]
    ELSE IF s[i] \in Whitespace THEN Lex(s, i + 1, acc)
    ELSE IF s[i] \in Punct \cup NumberUnits \cup LiteralUnits
         THEN Lex(s, i + 1, Append(acc, <<s[i]>>))
    ELSE IF s[i] = QUOTE THEN
        LET r == LexString(s, i + 1, <<>>)
        IN  IF r.ok THEN Lex(s, r.next, Append(acc, r.tok)) ELSE BadTokens
    ELSE BadTokens

IsStringTok(tok) == tok[1] = QUOTE
IsScalarTok(tok) ==
    IsStringTok(tok) \/ tok[1] \in NumberUnits \cup LiteralUnits

RECURSIVE ValueEnd(_, _), ElementsEnd(_, _), MembersEnd(_, _)
\* index just after the JSON value that starts at token i, or 0
ValueEnd(t, i) ==
    IF i > Len(t) THEN 0
    ELSE IF IsScalarTok(t[i]) THEN i + 1
    ELSE IF t[i] = <<"[">> THEN
        IF i + 1 <= Len(t) /\ t[i + 1] = <<"]">> THEN i + 2 ELSE ElementsEnd(t, i + 1)
    ELSE IF t[i] = <<"{">> THEN
        IF i + 1 <= Len(t) /\ t[i + 1] = <<"}">> THEN i + 2 ELSE MembersEnd(t, i + 1)
    ELSE 0

ElementsEnd(t, i) ==
    LET e == ValueEnd(t, i)
    IN  IF e = 0 \/ e > Len(t) THEN 0
        ELSE IF t[e] = <<"]">> THEN e + 1
        ELSE IF t[e] = <<",">> THEN ElementsEnd(t, e + 1)
        ELSE 0

MembersEnd(t, i) ==
    IF i + 1 > Len(t) THEN 0
    ELSE IF ~IsStringTok(t[i]) \/ t[i + 1] # <<":">> THEN 0
    ELSE LET e == ValueEnd(t, i + 2)
         IN  IF e = 0 \/ e > Len(t) THEN 0
             ELSE IF t[e] = <<"}">> THEN e + 1
             ELSE IF t[e] = <<",">> THEN MembersEnd(t, e + 1)
             ELSE 0

JsonError == [ok |-> FALSE, val |-> <<>>]

\* json.loads(text): ok = FALSE stands for the raised JSONDecodeError
JsonLoads(text) ==
    LET l == Lex(text, 1, <<>>)
    IN  IF l.ok /\ l.toks # <<>> /\ ValueEnd(l.toks, 1) = Len(l.toks) + 1
        THEN [ok |-> TRUE, val |-> l.toks]
        ELSE JsonError

\* the Python value None, as the result of json.loads("null")
PyNone == << <<"null">> >>

\* Optional[Any]: isnone = TRUE is Python None
NoObj == [isnone |-> TRUE, val |-> <<>>]

SomeObj(v) == IF v = PyNone THEN NoObj ELSE [isnone |-> FALSE, val |-> v]

\* _parse_json_to_obj
ParseJsonToObj(text) ==
    LET cleaned == CleanFences(text)
        direct == JsonLoads(cleaned)
        candidate == ExtractBalancedJson(cleaned)
    IN  IF direct.ok THEN SomeObj(direct.val)
        ELSE IF candidate.found /\ candidate.str # <<>> THEN
            LET second == JsonLoads(candidate.str)
            IN  IF second.ok THEN SomeObj(second.val) ELSE NoObj
        ELSE NoObj


-----------------------------------------------------------------------------
(* Transactions.  A list element is a JSON value: isdict = FALSE is any    *)
(* element that is not an object; has_amount = FALSE is a missing, null or *)
(* zero "amount".  Amounts are in cents.                                   *)

Txn(date, label, amount) ==
    [isdict |-> TRUE, date |-> date, label |-> label,
     has_amount |-> TRUE, amount |-> amount]

NoAmountTxn(date, label) ==
    [isdict |-> TRUE, date |-> date, label |-> label,
     has_amount |-> FALSE, amount |-> 0]

NotADict ==
    [isdict |-> FALSE, date |-> "", label |-> "", has_amount |-> FALSE, amount |-> 0]

\* t.get(...) on an element that is not a dict raises AttributeError
Raises(txns) == \E i \in 1..Len(txns) : ~txns[i].isdict

\* float(t.get("amount", 0) or 0)
AmountOf(t) == IF t.has_amount THEN t.amount ELSE 0

Abs(x) == IF x < 0 THEN -x ELSE x

\* [abs(float(t.get("amount", 0) or 0)) for t in txns]
AbsAmounts(txns) == [i \in 1..Len(txns) |-> Abs(AmountOf(txns[i]))]

RECURSIVE SumTo(_, _)
SumTo(s, i) == IF i = 0 THEN 0 ELSE s[i] + SumTo(s, i - 1)

SumSeq(s) == SumTo(s, Len(s))

Squares(s) == [i \in 1..Len(s) |-> s[i] * s[i]]

\* n^2 times the population variance of the amounts: n*sum(x^2) - sum(x)^2
ScaledVariance(amounts) ==
    Len(amounts) * SumSeq(Squares(amounts)) - SumSeq(amounts) * SumSeq(amounts)

\* the threshold computed without the substitution of 1e-9 for a small sigma
Threshold_NoFloor(amounts) ==
    [computed |-> TRUE, n |-> Len(amounts), sum |-> SumSeq(amounts),
     var |-> IF Len(amounts) > 1 THEN ScaledVariance(amounts) ELSE 0,
     floor |-> FALSE]

\* mu = mean(amounts), sigma = pstdev(amounts) if len(amounts) > 1 else 0.0 and
\* threshold = mu + 3 * (sigma if sigma > 1e-9 else 1e-9), kept as the exact
\* parts it is made of: mu = sum/n, sigma = sqrt(var)/n, and floor = TRUE
\* when 1e-9 stands in for sigma (whole cents: sigma > 1e-9 exactly when var > 0)
Threshold(amounts) ==
    [computed |-> TRUE, n |-> Len(amounts), sum |-> SumSeq(amounts),
     var |-> IF Len(amounts) > 1 THEN ScaledVariance(amounts) ELSE 0,
     floor |-> (IF Len(amounts) > 1 THEN ScaledVariance(amounts) ELSE 0) = 0]

\* no threshold was computed (early return)
NoThreshold == [computed |-> FALSE, n |-> 0, sum |-> 0, var |-> 0, floor |-> FALSE]

\* the lists on which the double threshold comes out below the real one, so
\* that an amount equal to the real threshold is kept: of the lists built from
\* 0.10, 10.00, 0.90 and 0 with an amount on the real threshold, python's
\* mean/pstdev keep the amount for nine 0.10 and one 0.90 and for eighteen
\* 0.10 and two 0.90, and drop it for the same lists with 10.00 for 0.90
LowTies == { [common |-> 10, n_common |-> 9, odd |-> 90, n_odd |-> 1],
             [common |-> 10, n_common |-> 18, odd |-> 90, n_odd |-> 2] }

RoundsLow(txns) ==
    LET amounts == AbsAmounts(txns)
        Count(a) == Cardinality({ i \in 1..Len(amounts) : amounts[i] = a })
    IN  \E tie \in LowTies :
            /\ Len(amounts) = tie.n_common + tie.n_odd
            /\ Count(tie.common) = tie.n_common
            /\ Count(tie.odd) = tie.n_odd

\* a > mu + 3 * (sigma if sigma > 1e-9 else 1e-9), with mu = sum/n the mean and
\* sigma = sqrt(var)/n the population deviation of n amounts (0.0 for n = 1).
\* With d = n*(a - mu) the comparison is d > 3*sqrt(var).  Amounts are whole
\* cents, so sigma > 1e-9 exactly when var > 0, and a - mu > 3e-9 exactly when
\* d > 0.  At d*d = 9*var the doubles decide; low says they decide for ">".
ExceedsThreshold(a, n, sum, var, low) ==
    LET d == n * a - sum
    IN  IF d <= 0 THEN FALSE
        ELSE IF n <= 1 \/ var = 0 THEN TRUE
        ELSE \/ d * d > 9 * var
             \/ d * d = 9 * var /\ low

\* the comprehension stopping at the first transaction it keeps
Outliers_FirstOnly(txns, low) ==
    LET amounts == AbsAmounts(txns)
        sum == SumSeq(amounts)
        var == ScaledVariance(amounts)
        all == SelectSeq(txns, LAMBDA t :
                   ExceedsThreshold(Abs(AmountOf(t)), Len(amounts), sum, var, low))
    IN  SubSeq(all, 1, IF all = <<>> THEN 0 ELSE 1)

\* mu, sigma, threshold and
\* [t for t in txns if abs(float(t.get("amount", 0) or 0)) > threshold]
Outliers(txns, low) ==
    LET amounts == AbsAmounts(txns)
        sum == SumSeq(amounts)
        var == ScaledVariance(amounts)
    IN  SelectSeq(txns, LAMBDA t :
            ExceedsThreshold(Abs(AmountOf(t)), Len(amounts), sum, var, low))

\* the filter without "or txns"
MaybeFastFilter_NoFallback(txns, fast_flag, low) ==
    IF ~fast_flag \/ txns = <<>> THEN txns ELSE Outliers(txns, low)

\* _maybe_fast_filter
MaybeFastFilter(txns, fast_flag, low) ==
    IF ~fast_flag \/ txns = <<>> THEN txns
    ELSE LET anomalies == Outliers(txns, low)
         IN  IF anomalies # <<>> THEN anomalies ELSE txns

-----------------------------------------------------------------------------
(* Heuristic ("BL") results.  Totals are in cents, so round(x, 2) changes  *)
(* nothing; risk scores are in hundredths.  A formatted summary string is  *)
(* the record of the values formatted into it.                             *)

RECURSIVE SumWhere(_, _)
\* sum(f(t) for t in txns if ...): sign = 1 sums the positive amounts,
\* sign = -1 sums the negated negative amounts
SumWhere(txns, sign) ==
    IF txns = <<>> THEN 0
    ELSE (IF sign * AmountOf(Head(txns)) > 0 THEN sign * AmountOf(Head(txns)) ELSE 0)
         + SumWhere(Tail(txns), sign)

RECURSIVE CountWhere(_, _)
\* sum(1 for t in txns if ...)
CountWhere(txns, sign) ==
    IF txns = <<>> THEN 0
    ELSE (IF sign * AmountOf(Head(txns)) > 0 THEN 1 ELSE 0) + CountWhere(Tail(txns), sign)

FirstN(s, n) == SubSeq(s, 1, IF Len(s) < n THEN Len(s) ELSE n)

\* bl_spending
BlSpending(txns, low) ==
    LET income == SumWhere(txns, 1)
        spend == SumWhere(txns, -1)
        unusual == Outliers(txns, low)
        top_categories ==
            (IF spend > 0
             THEN << [name |-> "Expenses", total |-> spend, count |-> CountWhere(txns, -1)] >>
             ELSE <<>>)
            \o
            (IF income > 0
             THEN << [name |-> "Income", total |-> income, count |-> CountWhere(txns, 1)] >>
             ELSE <<>>)
    IN  [summary |-> [income |-> income, spending |-> spend],
         top_categories |-> FirstN(top_categories, 5),
         unusual_transactions |-> unusual]

\* next((c["total"] for c in cats if c["name"] == name), 0.0)
RECURSIVE TotalOf(_, _)
TotalOf(cats, name) ==
    IF cats = <<>> THEN 0
    ELSE IF Head(cats).name = name THEN Head(cats).total
    ELSE TotalOf(Tail(cats), name)

\* bl_coach
BlCoach(txns, low) ==
    LET s == BlSpending(txns, low)
        income_total == TotalOf(s.top_categories, "Income")
        spend_total == TotalOf(s.top_categories, "Expenses")
        net == income_total - spend_total
        buckets ==
            << [name |-> "Income", total |-> income_total, count |-> CountWhere(txns, 1)],
               [name |-> "Spending", total |-> spend_total, count |-> CountWhere(txns, -1)] >>
        tips ==
            (IF spend_total > 0 THEN <<"Set a weekly spending cap">> ELSE <<>>)
            \o (IF income_total > 0 /\ net > 0 THEN <<"Auto-transfer to savings">> ELSE <<>>)
            \o <<"Review large or unusual transactions">>
    IN  [summary |-> [income |-> income_total, spending |-> spend_total, net |-> net],
         buckets |-> buckets,
         tips |-> FirstN(tips, 3)]

\* 100000 (dollars) in cents
UnusualAmount == 10000000
\* 10000 (dollars) in cents
RoundAmountFloor == 1000000
\* 100 (dollars) in cents
RoundAmountStep == 10000

FraudIndicators(amt) ==
    (IF amt >= UnusualAmount THEN <<"unusual_amount">> ELSE <<>>)
    \o (IF Abs(amt) >= RoundAmountFloor /\ Abs(amt) % RoundAmountStep = 0
        THEN <<"round_dollar_amount">> ELSE <<>>)

\* the risk of the round-amount policy taking precedence
FraudRisk_RoundFirst(amt) ==
    IF Abs(amt) >= RoundAmountFloor /\ Abs(amt) % RoundAmountStep = 0 THEN 60
    ELSE IF amt >= UnusualAmount THEN 90
    ELSE 0

\* risk = max(risk, 0.9) / max(risk, 0.6), in hundredths
FraudRisk(amt) ==
    IF amt >= UnusualAmount THEN 90
    ELSE IF Abs(amt) >= RoundAmountFloor /\ Abs(amt) % RoundAmountStep = 0 THEN 60
    ELSE 0

RECURSIVE FraudFindings(_)
FraudFindings(txns) ==
    IF txns = <<>> THEN <<>>
    ELSE LET t == Head(txns)
             amt == AmountOf(t)
         IN  (IF FraudIndicators(amt) # <<>>
              THEN << [transaction |-> [date |-> t.date, label |-> t.label, amount |-> amt],
                       risk_score |-> FraudRisk(amt),
                       indicators |-> FraudIndicators(amt),
                       reason |-> "Heuristic screening flagged patterns requiring review.",
                       recommendation |-> "Place a hold and verify the source."] >>
              ELSE <<>>)
             \o FraudFindings(Tail(txns))

\* bl_fraud
BlFraud(txns) ==
    LET findings == FraudFindings(txns)
        overall ==
            IF \E i \in 1..Len(findings) : findings[i].risk_score >= 85 THEN "high"
            ELSE IF \E i \in 1..Len(findings) : findings[i].risk_score >= 60 THEN "medium"
            ELSE "low"
    IN  [findings |-> findings,
         overall_risk |-> overall,
         summary |-> [text |-> "Heuristic baseline screening results."]]

\* _generic_fallback
GenericFallback ==
    [summary |-> [text |-> "Model returned non-JSON output."],
     findings |-> <<>>,
     overall_risk |-> "low",
     top_categories |-> <<>>,
     unusual_transactions |-> <<>>,
     buckets |-> <<>>,
     tips |-> <<>>]

-----------------------------------------------------------------------------
(* Responses.  A response is (body, status).  The body is the object that  *)
(* was serialised: kind "json" is a value parsed from the model's text     *)
(* (val is its token sequence), kind "dict" is a dict built by the code    *)
(* (val is the record), kind "error" is jsonify(error=...) or the          *)
(* framework's answer to an unhandled exception.                           *)

\* _json_response
JsonResponse(kind, val) == [status |-> 200, body |-> [kind |-> kind, val |-> val]]

ErrorResponse(status) == [status |-> status, body |-> [kind |-> "error", val |-> <<>>]]

\* the handler surfacing the parse failure
HandleLlmJsonOrFallback_Surfaces(raw_text, bl_obj, bl_fallback) ==
    LET obj == ParseJsonToObj(raw_text)
    IN  IF ~obj.isnone THEN JsonResponse("json", obj.val) ELSE ErrorResponse(502)

\* _handle_llm_json_or_fallback
HandleLlmJsonOrFallback(raw_text, bl_obj, bl_fallback) ==
    LET obj == ParseJsonToObj(raw_text)
    IN  IF ~obj.isnone THEN JsonResponse("json", obj.val)
        ELSE IF bl_fallback THEN JsonResponse("dict", bl_obj)
        ELSE JsonResponse("dict", GenericFallback)

-----------------------------------------------------------------------------
(* Requests *)

Endpoints == {"coach", "spending", "fraud"}

\* request.get_json(silent=True): kind "none" is no body or a body that is not
\* JSON; txkind says what data.get("transactions") is for a dict
Payload(kind, txkind, items, ctx) ==
    [kind |-> kind, txkind |-> txkind, items |-> items, ctx |-> ctx]

NoTxns == [isnone |-> TRUE, list |-> <<>>]

\* _extract_transactions
ExtractTransactions(payload) ==
    IF payload.kind = "none" THEN NoTxns
    ELSE IF payload.kind = "list" THEN [isnone |-> FALSE, list |-> payload.items]
    ELSE IF payload.kind = "dict" THEN
        IF payload.txkind = "list"
        THEN [isnone |-> FALSE, list |-> payload.items]
        ELSE NoTxns
    ELSE NoTxns

\* "not txns"
NotTxns(ex) == ex.isnone \/ ex.list = <<>>

\* str.lower() on the values of the fast query parameter
Lower(v) == IF v = "TRUE" THEN "true" ELSE IF v = "Y" THEN "y" ELSE v

\* the query parameter can switch the pre-screen on but not off
FastMode_DefaultWins(fast_qs, env_fast_mode) ==
    env_fast_mode \/ (fast_qs.present /\ Lower(fast_qs.v) \in {"1", "true", "yes", "y"})

\* fast_mode in fraud_detect
FastMode(fast_qs, env_fast_mode) ==
    IF ~fast_qs.present THEN env_fast_mode
    ELSE Lower(fast_qs.v) \in {"1", "true", "yes", "y"}

\* the heuristic result each handler computes
BlFor(endpoint, txns, low) ==
    IF endpoint = "coach" THEN BlCoach(txns, low)
    ELSE IF endpoint = "spending" THEN BlSpending(txns, low)
    ELSE BlFraud(txns)

\* the prompt built from the whole list
Prompt_NoCap(endpoint, txns, ctx, max_txns) ==
    [name |-> IF endpoint = "coach" THEN "coach"
              ELSE IF endpoint = "spending" THEN "spending_analyze"
              ELSE "fraud_detect",
     transactions |-> txns,
     account_context |-> endpoint = "fraud" /\ ctx]

\* render_prompt(name, transactions=json.dumps(txns[:MAX_TXNS]), ...)
Prompt(endpoint, txns, ctx, max_txns) ==
    [name |-> IF endpoint = "coach" THEN "coach"
              ELSE IF endpoint = "spending" THEN "spending_analyze"
              ELSE "fraud_detect",
     transactions |-> FirstN(txns, max_txns),
     account_context |-> endpoint = "fraud" /\ ctx]

NoLocal == [txns |-> <<>>, txns_for_prompt |-> <<>>, prompt |-> Prompt("coach", <<>>, FALSE, 0)]
NoResp == [status |-> 0, body |-> [kind |-> "error", val |-> <<>>]]

\* what attempt number k of the model call meets: the first upstream.rl
\* attempts are answered with a rate-limit error, later ones with upstream.then
OutcomeOf(k) == IF k <= upstream.rl THEN "rate_limit" ELSE upstream.then

\* budget_coach / spending_analyze / fraud_detect up to model.generate_content
HandlerBeforeCall(e, p, q) ==
    LET ex == ExtractTransactions(p)
        txns == ex.list
        fast_mode == e = "fraud" /\ FastMode(q, cfg.ENV_FAST_MODE)
        filter_raises == fast_mode /\ Raises(txns)
        tfp == IF e = "fraud" /\ ~filter_raises
               THEN MaybeFastFilter(txns, fast_mode, fp_low) ELSE txns
    IN  IF NotTxns(ex) THEN
            /\ resp' = ErrorResponse(400)
            /\ pc' = "done"
            /\ local' = NoLocal
        ELSE IF filter_raises THEN
            /\ resp' = ErrorResponse(500)
            /\ pc' = "done"
            /\ local' = NoLocal
        ELSE IF cfg.BL_ONLY THEN
            /\ resp' = IF Raises(tfp) THEN ErrorResponse(500)
                       ELSE JsonResponse("dict", BlFor(e, tfp, fp_low))
            /\ pc' = "done"
            /\ local' = NoLocal
        ELSE
            /\ resp' = NoResp
            /\ pc' = "calling"
            /\ local' = [txns |-> txns, txns_for_prompt |-> tfp,
                         prompt |-> Prompt(e, tfp, p.ctx, cfg.MAX_TXNS)]

\* the except branch without the fallback
HandlerExcept_NoFallback == ErrorResponse(500)

\* the "except Exception" branch of the three handlers
HandlerExcept ==
    IF cfg.BL_FALLBACK \/ cfg.BL_ONLY THEN
        IF Raises(local.txns_for_prompt) THEN ErrorResponse(500)
        ELSE JsonResponse("dict", BlFor(req.endpoint, local.txns_for_prompt, fp_low))
    ELSE ErrorResponse(500)

\* the rest of the "try" block once generate_content has returned text
HandlerAfterCall(text) ==
    IF Raises(local.txns_for_prompt) THEN HandlerExcept
    ELSE HandleLlmJsonOrFallback(text,
                                 BlFor(req.endpoint, local.txns_for_prompt, fp_low),
                                 cfg.BL_FALLBACK)

-----------------------------------------------------------------------------
(* Prompt templates.  A template or a rendered text is a sequence of units: *)
(* an opening brace, a closing brace, or a run of other characters (blanks  *)
(* and newlines included); the text is the concatenation of its units.      *)
(* A dict is a function from its keys to its values.                        *)

EmptyDict == <<>>

PromptNames == {"coach", "spending_analyze", "fraud_detect"}

\* default_prompts in load_prompts
DefaultPrompts ==
    [coach |->
        <<"You are a helpful coach.\nReturn JSON with keys summary, buckets, tips.\nTransactions:\n",
          "{", "transactions", "}", "\n">>,
     spending_analyze |->
        <<"You analyze spending.\nReturn JSON with summary, top_categories, unusual_transactions.\nTransactions:\n",
          "{", "transactions", "}", "\n">>,
     fraud_detect |->
        <<"You detect fraud.\nTransactions:\n", "{", "transactions", "}", "\n",
          "{", "account_context", "}", "\nReturn JSON with findings, overall_risk, summary.\n">>]

\* str(v) of a value deserialized from YAML
StrOfYaml(v) ==
    IF v.kind = "str" THEN v.text
    ELSE IF v.kind = "null" THEN <<"None">>
    ELSE v.text

\* {**a, **b}
MergeDicts(a, b) ==
    [k \in DOMAIN a \cup DOMAIN b |-> IF k \in DOMAIN b THEN b[k] ELSE a[k]]

\* load_prompts without the defaults under the loaded keys
LoadPrompts_NoMerge(yaml_ok, f) ==
    IF ~yaml_ok THEN DefaultPrompts
    ELSE IF f.kind \in {"missing", "unreadable", "invalid"} THEN DefaultPrompts
    ELSE IF f.kind = "scalar" THEN DefaultPrompts
    ELSE [k \in DOMAIN f.map |-> StrOfYaml(f.map[k])]

\* load_prompts: the value it assigns to PROMPTS.  f.kind says what opening
\* and deserializing prompts.yaml gives: "missing" and "unreadable" make open
\* raise, "invalid" makes safe_load raise, "scalar" is a document that is not
\* a mapping, "empty" an empty document, "mapping" a mapping with entries f.map
LoadPrompts(yaml_ok, f) ==
    IF ~yaml_ok THEN DefaultPrompts
    ELSE IF f.kind \in {"missing", "unreadable", "invalid"} THEN DefaultPrompts
    ELSE IF f.kind = "scalar" THEN DefaultPrompts
    ELSE MergeDicts(DefaultPrompts, [k \in DOMAIN f.map |-> StrOfYaml(f.map[k])])

\* a plain dict in place of _SafeDict: a missing key raises KeyError
SafeDictGet_Raises(kwargs, key) ==
    IF key \in DOMAIN kwargs THEN [ok |-> TRUE, text |-> kwargs[key]]
    ELSE [ok |-> FALSE, text |-> <<>>]

\* _SafeDict(kwargs)[key]
SafeDictGet(kwargs, key) ==
    IF key \in DOMAIN kwargs THEN [ok |-> TRUE, text |-> kwargs[key]]
    ELSE [ok |-> TRUE, text |-> <<>>]

FormatError == [ok |-> FALSE, text |-> <<>>]

Braces == {"{", "}"}

\* what may follow the name in a replacement field: an index into the value
\* and a format specification (right-aligned in a width of three)
IndexZero == "[0]"
PadThree == ":>3"
FieldSuffixes == {IndexZero, PadThree}

\* the value of the replacement field {name suffix}: the mapping is asked for
\* name, then the index is applied, then format(value, spec).  The first unit
\* of a non-empty value is its first character, and a non-empty value is at
\* least three characters long
FieldValue(kwargs, name, suffix) ==
    LET got == SafeDictGet(kwargs, name)
    IN  IF ~got.ok THEN FormatError
        ELSE IF suffix = IndexZero THEN
            IF got.text = <<>> THEN FormatError
            ELSE [ok |-> TRUE, text |-> <<got.text[1]>>]
        ELSE IF suffix = PadThree THEN
            IF got.text = <<>> THEN [ok |-> TRUE, text |-> <<"   ">>]
            ELSE got
        ELSE got

\* str.format_map(mapping) from unit i on, acc the text produced so far:
\* doubled braces are literal braces, {name} and {name suffix} are
\* replacement fields, any other brace raises ValueError; a substituted value
\* is not scanned again
RECURSIVE FormatFrom(_, _, _, _)
FormatFrom(t, i, kwargs, acc) ==
    IF i > Len(t) THEN [ok |-> TRUE, text |-> acc]
    ELSE IF t[i] = "{" THEN
        IF i + 1 <= Len(t) /\ t[i + 1] = "{"
        THEN FormatFrom(t, i + 2, kwargs, Append(acc, "{"))
        ELSE IF i + 2 <= Len(t) /\ t[i + 1] \notin Braces /\ t[i + 2] = "}"
        THEN LET got == FieldValue(kwargs, t[i + 1], "")
             IN  IF got.ok THEN FormatFrom(t, i + 3, kwargs, acc \o got.text)
                 ELSE FormatError
        ELSE IF /\ i + 3 <= Len(t) /\ t[i + 1] \notin Braces
                /\ t[i + 2] \in FieldSuffixes /\ t[i + 3] = "}"
        THEN LET got == FieldValue(kwargs, t[i + 1], t[i + 2])
             IN  IF got.ok THEN FormatFrom(t, i + 4, kwargs, acc \o got.text)
                 ELSE FormatError
        ELSE FormatError
    ELSE IF t[i] = "}" THEN
        IF i + 1 <= Len(t) /\ t[i + 1] = "}"
        THEN FormatFrom(t, i + 2, kwargs, Append(acc, "}"))
        ELSE FormatError
    ELSE FormatFrom(t, i + 1, kwargs, Append(acc, t[i]))

FormatMap(tmpl, kwargs) == FormatFrom(tmpl, 1, kwargs, <<>>)

\* PROMPTS.get(name, "")
PromptsGet(prompts, name) == IF name \in DOMAIN prompts THEN prompts[name] ELSE <<>>

\* render_prompt(name, **kwargs) against the table prompts
RenderPrompt(prompts, name, kwargs) == FormatMap(PromptsGet(prompts, name), kwargs)

-----------------------------------------------------------------------------
(* The normalizer of the UI (src/ui/budget_coach_app.py).  A JSON value of  *)
(* a raw record is [kind, text, num]: kind "absent" is a missing key,       *)
(* "null" is None, "str" a string with the units text, "int" a number whose *)
(* decimal form is text; num is the number a numeric value or a numeric     *)
(* string stands for, in cents, and numeric says whether float() accepts    *)
(* the value.  A timestamp is a sequence of units: the pieces ".000",       *)
(* "+00:00", "Z" and runs of other characters.                              *)

PyAbsent == [kind |-> "absent", text |-> <<>>, num |-> 0, numeric |-> FALSE]
PyNull == [kind |-> "null", text |-> <<>>, num |-> 0, numeric |-> FALSE]
PyStr(text) == [kind |-> "str", text |-> text, num |-> 0, numeric |-> FALSE]
PyNumStr(text, num) == [kind |-> "str", text |-> text, num |-> num, numeric |-> TRUE]
PyInt(text, num) == [kind |-> "int", text |-> text, num |-> num, numeric |-> TRUE]

\* t.get(key, default)
GetOr(v, default) == IF v.kind = "absent" THEN default ELSE v

\* str(v)
StrOfValue(v) ==
    IF v.kind = "null" THEN <<"None">>
    ELSE v.text

\* float(v) raises TypeError on None and ValueError on a string that is not
\* a number
FloatRaises(v) == ~v.numeric

\* float(v) of a number or a numeric string
FloatOf(v) == v.num

\* str.replace(old, new) from unit i on
RECURSIVE ReplaceAllFrom(_, _, _, _)
ReplaceAllFrom(s, i, old, new) ==
    IF i > Len(s) THEN <<>>
    ELSE IF StartsWithAt(s, i, old)
         THEN new \o ReplaceAllFrom(s, i + Len(old), old, new)
         ELSE <<s[i]>> \o ReplaceAllFrom(s, i + 1, old, new)

ReplaceAll(s, old, new) == ReplaceAllFrom(s, 1, old, new)

\* normalize_ts
NormalizeTs(ts) ==
    ReplaceAll(ReplaceAll(ts, <<".000", "+00:00">>, <<"Z">>), <<"+00:00">>, <<"Z">>)

\* the body of the loop of transform_for_agent raises on record t: t has no
\* .get, the timestamp is not a string, or float() rejects the amount
RecordRaises(t) ==
    \/ ~t.isdict
    \/ GetOr(t.timestamp, PyStr(<<>>)).kind # "str"
    \/ FloatRaises(GetOr(t.amount, PyInt(<<"0">>, 0)))

\* the loop body of transform_for_agent: the dict appended for record t
NormalizeRecord(t, acct) ==
    LET ts == GetOr(t.timestamp, PyStr(<<>>)).text
        to_acct == StrOfValue(GetOr(t.toAccountNum, PyStr(<<>>)))
        from_acct == StrOfValue(GetOr(t.fromAccountNum, PyStr(<<>>)))
        amt == FloatOf(GetOr(t.amount, PyInt(<<"0">>, 0)))
        inbound == to_acct = StrOfValue(acct)
    IN  [date |-> NormalizeTs(ts),
         label |-> IF inbound THEN <<"Inbound from ">> \o from_acct
                   ELSE <<"Outbound to ">> \o to_acct,
         amount |-> IF inbound THEN amt ELSE -amt]

NormalizerRaised == [ok |-> FALSE, out |-> <<>>]

\* transform_for_agent(raw, acct) from record i on, out the list built so far
RECURSIVE TransformFrom(_, _, _, _)
TransformFrom(raw, acct, i, out) ==
    IF i > Len(raw) THEN [ok |-> TRUE, out |-> out]
    ELSE IF RecordRaises(raw[i]) THEN NormalizerRaised
    ELSE TransformFrom(raw, acct, i + 1, Append(out, NormalizeRecord(raw[i], acct)))

TransformForAgent(raw, acct) == TransformFrom(raw, acct, 1, <<>>)

-----------------------------------------------------------------------------
(* Inputs *)

Str(content) == <<QUOTE>> \o content \o <<QUOTE>>

\* {"key": value}
Obj1(key, value) == <<"{">> \o Str(<<key>>) \o <<":">> \o value \o <<"}">>

ObjOk == Obj1("summary", Str(<<"ok">>))
ObjSpaced == <<"{", SP>> \o Str(<<"summary">>) \o <<SP, ":", SP>> \o Str(<<"ok">>) \o <<NL, "}">>
ObjCloseInStr == Obj1("summary", Str(<<"a", "}", "b">>))
ObjOpenInStr == Obj1("summary", Str(<<"{", "[">>))
ObjEscQuote == Obj1("summary", Str(<<"a", BSLASH, QUOTE, "}">>))
ObjEscBslash == Obj1("summary", Str(<<"]", BSLASH, BSLASH>>))
ObjFenceInStr == Obj1("summary", Str(<<"x">> \o Fence \o <<"y">>))
ObjNested ==
    <<"{">> \o Str(<<"a">>) \o <<":">> \o Obj1("b", <<"[">> \o Str(<<"}">>) \o <<",", "1", "]">>)
    \o <<",">> \o Str(<<"k">>) \o <<":", "null", "}">>
ObjEmpty == <<"{", "}">>

ObjCoach ==
    <<"{">> \o Str(<<"summary">>) \o <<":">> \o Str(<<"ok">>) \o <<",">>
    \o Str(<<"buckets">>) \o <<":", "[", "]", ",">>
    \o Str(<<"tips">>) \o <<":", "[", "]", "}">>
ObjSpending ==
    <<"{">> \o Str(<<"summary">>) \o <<":">> \o Str(<<"ok">>) \o <<",">>
    \o Str(<<"top_categories">>) \o <<":", "[", "]", ",">>
    \o Str(<<"unusual_transactions">>) \o <<":", "[", "]", "}">>
ObjFraud ==
    <<"{">> \o Str(<<"findings">>) \o <<":", "[", "]", ",">>
    \o Str(<<"overall_risk">>) \o <<":">> \o Str(<<"low">>) \o <<",">>
    \o Str(<<"summary">>) \o <<":">> \o Str(<<"ok">>) \o <<"}">>
ObjFraudBadRisk ==
    <<"{">> \o Str(<<"findings">>) \o <<":", "[", "]", ",">>
    \o Str(<<"overall_risk">>) \o <<":">> \o Str(<<"severe">>) \o <<",">>
    \o Str(<<"summary">>) \o <<":">> \o Str(<<"ok">>) \o <<"}">>

\* JSON object texts
JsonObjects ==
    {ObjOk, ObjSpaced, ObjCloseInStr, ObjOpenInStr, ObjEscQuote, ObjEscBslash,
     ObjFenceInStr, ObjNested, ObjEmpty}

TxtProse == <<"not", SP, "json", SP, "at", SP, "all">>
TxtUnbalanced == <<"{">> \o Str(<<"a">>) \o <<":">>
TxtNotJson == <<"{", "oops", "}">>
TxtOpenString == <<"{">> \o Str(<<"a">>) \o <<":", QUOTE, "}">>
TxtNull == <<"null">>
TxtArray == <<"[", "1", "]">>

\* texts that hold no JSON object
OtherTexts == {<<>>, TxtProse, TxtUnbalanced, TxtNotJson, TxtOpenString, TxtNull, TxtArray}

\* prose before the JSON text
Pres ==
    { <<>>,
      <<"Sure", ":", SP>>,
      <<"see", SP, "[", "1", "]", ":", SP>>,
      <<"say", SP, QUOTE, "hi", SP>>,
      <<"path", BSLASH>>,
      <<"set", SP, "{", "x", "}", ":", SP>> }

\* prose after the JSON text
Posts ==
    { <<>>,
      <<SP, "thanks">>,
      <<SP, "}">>,
      <<SP, QUOTE, "x">>,
      <<NL, "{", "x", "}">> }

Wraps == {"none", "json", "JSON", "plain"}

OpenFence(wrap) ==
    IF wrap = "none" THEN <<>>
    ELSE IF wrap = "json" THEN FenceJsonLower \o <<NL>>
    ELSE IF wrap = "JSON" THEN FenceJsonUpper \o <<NL>>
    ELSE Fence \o <<NL>>

CloseFence(wrap) == IF wrap = "none" THEN <<>> ELSE <<NL>> \o Fence

\* the raw model text made of the parts rin
RawText(rin) ==
    rin.pre \o OpenFence(rin.wrap) \o rin.body \o CloseFence(rin.wrap) \o rin.post

RecInputs == [pre : Pres, wrap : Wraps, body : JsonObjects \cup OtherTexts, post : Posts]

NoRecIn == [pre |-> <<>>, wrap |-> "none", body |-> <<>>, post |-> <<>>]

LFresh == << Txn("2024-01-01", "Fresh Mart", -4275) >>
LMixed == << Txn("2024-01-01", "Payroll", 10000),
             Txn("2024-01-02", "Fresh Mart", -4275),
             NoAmountTxn("2024-01-03", "Memo") >>
LWire == << Txn("2024-01-04", "Wire", 10000000) >>
LCash == << Txn("2024-01-05", "Cash", -1000000) >>
LNotDict == << NotADict >>
LPartlyDict == << Txn("2024-01-01", "Fresh Mart", -4275), NotADict >>

\* two amounts of 10.00 among nineteen of 0.10: both lie above the threshold
LSpikes ==
    [i \in 1..21 |-> IF i = 5 THEN Txn("2024-01-06", "Spike A", -1000)
                     ELSE IF i = 15 THEN Txn("2024-01-06", "Spike B", 1000)
                     ELSE Txn("2024-01-06", "Snack", -10)]

TxnLists == {LFresh, LMixed, LWire, LCash, LSpikes}
MalformedLists == {LNotDict, LPartlyDict}

Payloads ==
    { Payload("none", "absent", <<>>, FALSE),
      Payload("scalar", "absent", <<>>, FALSE),
      Payload("list", "absent", <<>>, FALSE),
      Payload("dict", "absent", <<>>, FALSE),
      Payload("dict", "notlist", <<>>, FALSE),
      Payload("dict", "list", <<>>, FALSE),
      Payload("dict", "list", LFresh, TRUE),
      Payload("dict", "list", LMixed, FALSE) }
    \cup { Payload("list", "absent", l, FALSE) : l \in TxnLists \cup MalformedLists }

NoFastQs == [present |-> FALSE, v |-> ""]
FastQsValues == {NoFastQs} \cup { [present |-> TRUE, v |-> v] : v \in {"TRUE", "y", "0"} }

\* texts the hosted model returns
ModelTexts ==
    { <<>>, TxtProse, TxtNull, TxtArray, ObjOk, ObjCoach, ObjSpending, ObjFraud,
      ObjFraudBadRisk, FenceJsonLower \o <<NL>> \o ObjFraud \o <<NL>> \o Fence }

\* the largest number of consecutive rate-limit errors the upstream gives
MaxRateLimited == 3

Upstreams == [rl : 0..MaxRateLimited, then : {"ok", "error"}]

\* INSIGHT_MAX_TXNS: the default and a small configured value
MaxTxnsChoices == {1, 30}

Configs ==
    [BL_ONLY : BOOLEAN, BL_FALLBACK : BOOLEAN, ENV_FAST_MODE : BOOLEAN,
     MAX_TXNS : MaxTxnsChoices]

DefaultConfig ==
    [BL_ONLY |-> FALSE, BL_FALLBACK |-> TRUE, ENV_FAST_MODE |-> FALSE, MAX_TXNS |-> 30]

NoReq == [endpoint |-> "coach", payload |-> Payload("none", "absent", <<>>, FALSE),
          fast_qs |-> NoFastQs]
NoUpstream == [rl |-> 0, then |-> "ok"]

\* values of prompts.yaml entries
YamlStr(text) == [kind |-> "str", text |-> text]
YamlNull == [kind |-> "null", text |-> <<>>]
YamlInt == [kind |-> "int", text |-> <<"7">>]

TmplCoachV2 == <<"Coach v2. Transactions: ", "{", "transactions", "}">>
TmplFraudV2 ==
    <<"Fraud v2 ", "{", "{", "literal", "}", "}", " ", "{", "transactions", "}", " ",
      "{", "account_context", "}", " ", "{", "region", "}", ".">>
TmplSpendingV2 == <<"Spending v2 ", "{", "transactions", "}", "{", "transactions", "}">>
TmplNoPlaceholder == <<"No placeholder at all.">>
TmplStrayOpen == <<"Broken ", "{", "transactions">>
TmplStrayClose == <<"Broken ", "}", " ", "{", "transactions", "}">>
TmplPositional == <<"Positional ", "{", "}">>
TmplIndexed == <<"Region ", "{", "region", IndexZero, "}", " ", "{", "transactions", "}">>
TmplPadded == <<"Ctx ", "{", "account_context", PadThree, "}", "|">>

FileOf(kind, map) == [kind |-> kind, map |-> map]

MissingFile == FileOf("missing", EmptyDict)

Mappings ==
    { [coach |-> YamlStr(TmplCoachV2)],
      [coach |-> YamlNull],
      [spending_analyze |-> YamlInt, summary |-> YamlStr(TmplNoPlaceholder)],
      [fraud_detect |-> YamlStr(TmplFraudV2), spending_analyze |-> YamlStr(TmplStrayOpen)],
      [coach |-> YamlStr(TmplIndexed), fraud_detect |-> YamlStr(TmplPadded)],
      [coach |-> YamlStr(TmplStrayClose), spending_analyze |-> YamlStr(TmplSpendingV2),
       fraud_detect |-> YamlStr(TmplPositional)] }

Files ==
    { FileOf(k, EmptyDict) : k \in {"missing", "unreadable", "invalid", "scalar", "empty"} }
    \cup { FileOf("mapping", m) : m \in Mappings }

\* json.dumps(txns[:MAX_TXNS], indent=2) and the account context text
TxnsText == <<"[", "\n  ", "{", "\"amount\": -42.75", "}", "\n]">>
CtxText == <<"A", "ccount context:\n", "{", "\"tier\": \"gold\"", "}">>

KwargsChoices ==
    { EmptyDict,
      [transactions |-> TxnsText],
      [transactions |-> TxnsText, account_context |-> <<>>],
      [transactions |-> TxnsText, account_context |-> CtxText],
      [account_context |-> CtxText],
      [transactions |-> TxnsText, region |-> <<"e", "u-west">>] }

RenderNames == PromptNames \cup {"summary", "unknown"}

NoRender == [name |-> "", kwargs |-> EmptyDict]

\* raw records as the upstream transaction service returns them
RawRecord(ts, to, from, amount) ==
    [isdict |-> TRUE, timestamp |-> ts, toAccountNum |-> to, fromAccountNum |-> from,
     amount |-> amount]

TsMillis == PyStr(<<"2025-10-04T20:09:07", ".000", "+00:00">>)
TsOffset == PyStr(<<"2025-10-04T20:09:07", "+00:00">>)
TsZulu == PyStr(<<"2025-10-04T20:09:07", "Z">>)

Acct101 == PyStr(<<"101">>)
Acct202 == PyStr(<<"202">>)

RawRecords ==
    { RawRecord(TsMillis, Acct101, Acct202, PyInt(<<"1250">>, 1250)),
      RawRecord(TsOffset, Acct202, Acct101, PyInt(<<"1250">>, 1250)),
      RawRecord(TsZulu, PyInt(<<"101">>, 101), Acct202, PyNumStr(<<"12.50">>, 1250)),
      RawRecord(TsZulu, Acct101, Acct202, PyAbsent),
      RawRecord(PyAbsent, Acct202, Acct101, PyInt(<<"0">>, 0)),
      RawRecord(TsZulu, Acct101, Acct202, PyInt(<<"-500">>, -500)),
      RawRecord(TsZulu, PyAbsent, Acct101, PyInt(<<"700">>, 700)),
      RawRecord(TsZulu, Acct101, Acct202, PyStr(<<"abc">>)),
      RawRecord(TsZulu, Acct202, Acct101, PyNull),
      RawRecord(PyNull, Acct101, Acct202, PyInt(<<"1250">>, 1250)),
      [isdict |-> FALSE, timestamp |-> PyAbsent, toAccountNum |-> PyAbsent,
       fromAccountNum |-> PyAbsent, amount |-> PyAbsent] }

\* the account id the UI passes: the text of the account field, or a number
CallerAccounts == {Acct101, PyStr(<<>>), PyInt(<<"101">>, 101)}

\* longest list of raw records
MaxRaw == 3

\* requests the process is given while the clock runs up to MaxClock seconds
MaxRequests == 3
MaxClock == 120
RequestIds == 1..MaxRequests

\* longest list given to the pre-screen
MaxLen == 21
\* most elements of a list that differ from the common amount: from a tenth
\* of the list on, no amount can lie three deviations above the mean
MaxOdd == MaxLen \div 10

BaseTxn == Txn("d", "base", -10)
OddTxns == { Txn("d", "big-in", 1000), Txn("d", "big-out", -1000),
             Txn("d", "snack", -90), NoAmountTxn("d", "none") }

OddCount(txns) == Cardinality({ i \in 1..Len(txns) : txns[i] # BaseTxn })

-----------------------------------------------------------------------------
(* The transaction forwarder (src/src/mcp-server/main.py).  A header is    *)
(* absent or present with a value; the transaction-history service answers *)
(* a request with a JSON body, with an error status, or not at all.         *)

Header(v) == [present |-> TRUE, v |-> v]
NoHeader == [present |-> FALSE, v |-> ""]

\* "not auth_header": request.headers.get gives None for an absent header
NotAuthHeader(h) == ~h.present \/ h.v = ""

\* a fixed token sent whatever the caller sent
UpstreamHeaders_DummyToken(auth_header) == [Authorization |-> "Bearer dummy"]

\* headers = {'Authorization': auth_header}
UpstreamHeaders(auth_header) == [Authorization |-> auth_header.v]

\* url and headers of requests.get
UpstreamRequest(account_id, auth_header) ==
    [url |-> <<"http://transactionhistory:8080", "/transactions/", account_id>>,
     headers |-> UpstreamHeaders(auth_header)]

ForwardResponse(status, kind, val) == [status |-> status, kind |-> kind, val |-> val]

\* outcomes of requests.get followed by raise_for_status and response.json()
Answered(json) == [kind |-> "json", status |-> 200, json |-> json]
ErrorStatus(status) == [kind |-> "http_error", status |-> status, json |-> "none"]
NoConnection == [kind |-> "connection_error", status |-> 0, json |-> "none"]
NotJson == [kind |-> "not_json", status |-> 200, json |-> "none"]
NoOutcome == [kind |-> "none", status |-> 0, json |-> "none"]

\* raise_for_status raises HTTPError, requests.get raises ConnectionError:
\* both are RequestException
RaisesRequestException(outcome) == outcome.kind \in {"http_error", "connection_error"}

NoForwardReq == [account_id |-> "", auth |-> NoHeader]
NoForwardResp == ForwardResponse(0, "none", "none")

-----------------------------------------------------------------------------
(* The transaction monitoring agent                                        *)
(* (src/src/ai/transaction-monitoring-agent/main.py and its twin           *)
(* src/src/transaction-monitoring-agent/main.py, which differ in the URL   *)
(* polled and in the prompt).  A transaction is its transaction_id, a      *)
(* positive number; a response is a list of transactions or a request      *)
(* error.                                                                  *)

\* last_seen_transaction_id = None
None == 0

Received(transactions) == [kind |-> "list", transactions |-> transactions]
RequestError == [kind |-> "error", transactions |-> <<>>]

\* the first i with transactions[i]['transaction_id'] == id, from index i on;
\* 0 when the loop ends without a match
RECURSIVE FirstMatchFrom(_, _, _)
FirstMatchFrom(transactions, id, i) ==
    IF i > Len(transactions) THEN 0
    ELSE IF transactions[i] = id THEN i
    ELSE FirstMatchFrom(transactions, id, i + 1)

\* "if last_seen_transaction_id:" and the loop finding it
Found(last_seen, transactions) ==
    last_seen # None /\ FirstMatchFrom(transactions, last_seen, 1) # 0

\* the list returned for a non-empty transactions
NewTransactions(last_seen, transactions) ==
    IF Found(last_seen, transactions)
    THEN SubSeq(transactions, FirstMatchFrom(transactions, last_seen, 1) + 1,
                Len(transactions))
    ELSE transactions

\* the global left alone when the last-seen id is not in the list
LastSeenAfter_KeptWhenAbsent(last_seen, transactions) ==
    IF last_seen # None
    THEN LET new_transactions == NewTransactions(last_seen, transactions)
         IN  IF Found(last_seen, transactions) /\ new_transactions # <<>>
             THEN new_transactions[Len(new_transactions)]
             ELSE last_seen
    ELSE transactions[Len(transactions)]

\* the global after get_new_transactions got a non-empty transactions
LastSeenAfter(last_seen, transactions) ==
    IF Found(last_seen, transactions)
    THEN LET new_transactions == NewTransactions(last_seen, transactions)
         IN  IF new_transactions # <<>>
             THEN new_transactions[Len(new_transactions)]
             ELSE last_seen
    ELSE transactions[Len(transactions)]

\* a failed poll forgetting the last-seen id
GetNewTransactions_Forgets(last_seen, response) ==
    IF response.kind = "error" \/ response.transactions = <<>>
    THEN [returned |-> <<>>, last_seen |-> None]
    ELSE [returned |-> NewTransactions(last_seen, response.transactions),
          last_seen |-> LastSeenAfter(last_seen, response.transactions)]

\* get_new_transactions: the value returned and the global afterwards
GetNewTransactions(last_seen, response) ==
    IF response.kind = "error" \/ response.transactions = <<>>
    THEN [returned |-> <<>>, last_seen |-> last_seen]
    ELSE [returned |-> NewTransactions(last_seen, response.transactions),
          last_seen |-> LastSeenAfter(last_seen, response.transactions)]

\* the ids in a list
IdsOf(transactions) == { transactions[i] : i \in 1..Len(transactions) }

-----------------------------------------------------------------------------
(* The spending route (src/src/ai/insight-agent/routes/spending.py): the   *)
(* loop of analyze_spending that sorts every transaction into a category   *)
(* and adds it to one of four totals.  Amounts are in cents.  Labels are   *)
(* the five below; what startswith and the keyword patterns give for them  *)
(* is tabulated.                                                           *)

LblInbound == "Inbound from 101"
LblOutbound == "Outbound to 202"
LblRide == "Uber ride"
LblFoods == "Whole Foods"
LblCoffee == "Coffee"

\* _is_transfer
IsTransfer(lbl) == lbl \in {LblInbound, LblOutbound}

\* the first pattern of KEYWORDS found in the label, "Expenses" when none is
KeywordCategory(lbl) ==
    IF lbl = LblRide THEN "Transport"
    ELSE IF lbl = LblFoods THEN "Groceries"
    ELSE "Expenses"

\* _categorize
Categorize(lbl, amt, is_transfer) ==
    IF amt > 0 THEN (IF ~is_transfer THEN "Income" ELSE "Transfers In")
    ELSE IF is_transfer THEN "Transfers Out"
    ELSE KeywordCategory(lbl)

\* inbound_sorted[int(0.75 * len(inbound_sorted))], 0.0 without inbound amounts
BigCut(tx) ==
    LET inbound == { i \in 1..Len(tx) : AmountOf(tx[i]) > 0 }
        k == (3 * Cardinality(inbound)) \div 4
        Below(x) == Cardinality({ i \in inbound : AmountOf(tx[i]) < x })
        UpTo(x) == Cardinality({ i \in inbound : AmountOf(tx[i]) <= x })
    IN  IF inbound = {} THEN 0
        ELSE CHOOSE x \in { AmountOf(tx[i]) : i \in inbound } : Below(x) <= k /\ k < UpTo(x)

NoTotals == [income |-> 0, expenses |-> 0, tin |-> 0, tout |-> 0, counted |-> <<>>]

\* the loop body with the last branch taken on the category name
AddToTotals_ExpensesByName(acc, t, big_cut) ==
    LET amt == AmountOf(t)
        transfer == IsTransfer(t.label)
        cat == IF amt > 0 /\ ~transfer /\ Abs(amt) >= big_cut THEN "Income"
               ELSE Categorize(t.label, amt, transfer)
    IN  IF cat = "Income"
        THEN [acc EXCEPT !.income = @ + amt, !.counted = Append(@, "income")]
        ELSE IF cat = "Transfers In"
        THEN [acc EXCEPT !.tin = @ + amt, !.counted = Append(@, "transfers_in")]
        ELSE IF cat = "Transfers Out"
        THEN [acc EXCEPT !.tout = @ + Abs(amt), !.counted = Append(@, "transfers_out")]
        ELSE IF cat = "Expenses"
        THEN [acc EXCEPT !.expenses = @ + Abs(amt), !.counted = Append(@, "expenses")]
        ELSE [acc EXCEPT !.counted = Append(@, "none")]

\* the body of "for t in tx": the category and the if/elif chain; counted
\* notes which total the transaction was added to
AddToTotals(acc, t, big_cut) ==
    LET amt == AmountOf(t)
        transfer == IsTransfer(t.label)
        cat == IF amt > 0 /\ ~transfer /\ Abs(amt) >= big_cut THEN "Income"
               ELSE Categorize(t.label, amt, transfer)
    IN  IF cat = "Income"
        THEN [acc EXCEPT !.income = @ + amt, !.counted = Append(@, "income")]
        ELSE IF cat = "Transfers In"
        THEN [acc EXCEPT !.tin = @ + amt, !.counted = Append(@, "transfers_in")]
        ELSE IF cat = "Transfers Out"
        THEN [acc EXCEPT !.tout = @ + Abs(amt), !.counted = Append(@, "transfers_out")]
        ELSE IF amt < 0
        THEN [acc EXCEPT !.expenses = @ + Abs(amt), !.counted = Append(@, "expenses")]
        ELSE [acc EXCEPT !.counted = Append(@, "none")]

RECURSIVE TotalsUpTo(_, _)
TotalsUpTo(tx, i) ==
    IF i = 0 THEN NoTotals ELSE AddToTotals(TotalsUpTo(tx, i - 1), tx[i], BigCut(tx))

\* analyze_spending: the totals before rounding, and net
AnalyzeSpending(tx) ==
    LET totals == TotalsUpTo(tx, Len(tx))
    IN  [totals |-> totals,
         net |-> totals.income - totals.expenses - totals.tout + totals.tin]

-----------------------------------------------------------------------------
(* The state machines *)

FilterIdle ==
    /\ fl_txns = <<>> /\ fl_fast = FALSE /\ fl_pc = "off" /\ fl_out = <<>>
    /\ fl_thr = NoThreshold
RecoverIdle == rec_in = NoRecIn /\ rec_bl = GenericFallback /\ rec_pc = "off" /\ rec_out = <<>>
RequestIdle ==
    /\ pc = "off" /\ req = NoReq /\ upstream = NoUpstream /\ calls = 0
    /\ local = NoLocal /\ resp = NoResp

PromptIdle ==
    /\ yaml = FALSE /\ file = MissingFile /\ PROMPTS = EmptyDict
    /\ pr_pc = "off" /\ pr_req = NoRender /\ pr_out = FormatError
NormIdle == nz_raw = <<>> /\ nz_acct = PyAbsent /\ nz_pc = "off" /\ nz_out = NormalizerRaised
LoadIdle == now = 0 /\ threads = [r \in RequestIds |-> "off"] /\ dispatched = <<>>
FraudIdle == fr_txns = <<>> /\ fr_pc = "off" /\ fr_out = BlFraud(<<>>)
ForwardIdle ==
    /\ fw_pc = "off" /\ fw_req = NoForwardReq /\ fw_sent = <<>>
    /\ fw_up = NoOutcome /\ fw_resp = NoForwardResp
PollIdle ==
    /\ last_seen_transaction_id = None /\ pl_pc = "off" /\ pl_resp = RequestError
    /\ pl_ret = <<>> /\ pl_prev = None /\ pl_reported = {} /\ pl_after_failure = FALSE
RouteIdle == sp_txns = <<>> /\ sp_pc = "off" /\ sp_out = AnalyzeSpending(<<>>)
MoreIdle == FraudIdle /\ ForwardIdle /\ PollIdle /\ RouteIdle
AuxIdle == PromptIdle /\ NormIdle /\ LoadIdle /\ MoreIdle

filter_vars == <<fl_txns, fl_fast, fl_pc, fl_out, fl_thr>>
recover_vars == <<rec_in, rec_bl, rec_pc, rec_out>>
request_vars == <<pc, req, upstream, calls, local, resp>>

(* Requests served by one process, one after the other *)

Init ==
    /\ cfg \in Configs
    /\ fp_low = FALSE
    /\ pc = "idle" /\ req = NoReq /\ upstream = NoUpstream /\ calls = 0
    /\ local = NoLocal /\ resp = NoResp
    /\ FilterIdle /\ RecoverIdle /\ AuxIdle

\* a request arrives and its handler runs up to the model call
Receive ==
    /\ pc = "idle"
    /\ \E e \in Endpoints, p \in Payloads, q \in FastQsValues, u \in Upstreams :
        /\ req' = [endpoint |-> e, payload |-> p, fast_qs |-> q]
        /\ upstream' = u
        /\ calls' = 0
        /\ HandlerBeforeCall(e, p, q)
    /\ UNCHANGED <<aux_vars, cfg, fp_low, filter_vars, recover_vars>>

\* model.generate_content returns text; the handler finishes
ModelReplies ==
    /\ pc = "calling"
    /\ OutcomeOf(calls + 1) = "ok"
    /\ \E text \in ModelTexts : resp' = HandlerAfterCall(text)
    /\ calls' = calls + 1
    /\ pc' = "done"
    /\ UNCHANGED <<aux_vars, cfg, fp_low, req, upstream, local, filter_vars, recover_vars>>

\* model.generate_content raises a rate-limit error; the handler finishes
ModelRateLimited ==
    /\ pc = "calling"
    /\ OutcomeOf(calls + 1) = "rate_limit"
    /\ resp' = HandlerExcept
    /\ calls' = calls + 1
    /\ pc' = "done"
    /\ UNCHANGED <<aux_vars, cfg, fp_low, req, upstream, local, filter_vars, recover_vars>>

\* the failed call is made again, up to a number of attempts
ModelFails_Retries ==
    /\ pc = "calling"
    /\ OutcomeOf(calls + 1) = "error"
    /\ calls' = calls + 1
    /\ IF calls + 1 <= MaxRateLimited
       THEN pc' = "calling" /\ resp' = resp
       ELSE pc' = "done" /\ resp' = HandlerExcept
    /\ UNCHANGED <<aux_vars, cfg, fp_low, req, upstream, local, filter_vars, recover_vars>>

\* model.generate_content raises any other error; the handler finishes
ModelFails ==
    /\ pc = "calling"
    /\ OutcomeOf(calls + 1) = "error"
    /\ resp' = HandlerExcept
    /\ calls' = calls + 1
    /\ pc' = "done"
    /\ UNCHANGED <<aux_vars, cfg, fp_low, req, upstream, local, filter_vars, recover_vars>>

\* the response is sent; the process waits for the next request
Finish ==
    /\ pc = "done"
    /\ pc' = "idle" /\ req' = NoReq /\ upstream' = NoUpstream /\ calls' = 0
    /\ local' = NoLocal /\ resp' = NoResp
    /\ UNCHANGED <<aux_vars, cfg, fp_low, filter_vars, recover_vars>>

Next == Receive \/ ModelReplies \/ ModelRateLimited \/ ModelFails \/ Finish

Spec == Init /\ [][Next]_vars

(* The pre-screen applied to bounded lists *)

InitFilter ==
    /\ cfg = DefaultConfig
    /\ fp_low = FALSE
    /\ fl_txns = <<>> /\ fl_fast = FALSE /\ fl_pc = "build" /\ fl_out = <<>>
    /\ fl_thr = NoThreshold
    /\ RecoverIdle /\ RequestIdle /\ AuxIdle

AddTxn ==
    /\ fl_pc = "build"
    /\ Len(fl_txns) < MaxLen
    /\ \E t \in {BaseTxn} \cup OddTxns :
        /\ OddCount(Append(fl_txns, t)) <= MaxOdd
        /\ fl_txns' = Append(fl_txns, t)
    /\ UNCHANGED <<aux_vars, cfg, fp_low, fl_fast, fl_pc, fl_out, fl_thr,
                   recover_vars, request_vars>>

ApplyFilter ==
    /\ fl_pc = "build"
    /\ \E fast \in BOOLEAN :
        /\ fl_fast' = fast
        /\ fl_out' = MaybeFastFilter(fl_txns, fast, RoundsLow(fl_txns))
        /\ fl_thr' = IF ~fast \/ fl_txns = <<>> THEN NoThreshold
                      ELSE Threshold(AbsAmounts(fl_txns))
    /\ fp_low' = RoundsLow(fl_txns)
    /\ fl_pc' = "done"
    /\ UNCHANGED <<aux_vars, cfg, fl_txns, recover_vars, request_vars>>

NextFilter == AddTxn \/ ApplyFilter

SpecFilter == InitFilter /\ [][NextFilter]_vars

(* Response recovery applied to bounded texts *)

InitRecover ==
    /\ cfg \in { c \in Configs : ~c.BL_ONLY /\ ~c.ENV_FAST_MODE /\ c.MAX_TXNS = 30 }
    /\ fp_low = FALSE
    /\ rec_in \in RecInputs
    /\ rec_bl \in { BlCoach(LFresh, FALSE), BlFraud(LWire) }
    /\ rec_pc = "input"
    /\ rec_out = <<>>
    /\ FilterIdle /\ RequestIdle /\ AuxIdle

\* _parse_json_to_obj(text)
ParseStep ==
    /\ rec_pc = "input"
    /\ rec_out' = ParseJsonToObj(RawText(rec_in))
    /\ rec_pc' = "parsed"
    /\ UNCHANGED <<aux_vars, cfg, fp_low, rec_in, rec_bl, filter_vars, request_vars>>

\* _extract_balanced_json(text)
ExtractStep ==
    /\ rec_pc = "input"
    /\ rec_out' = ExtractBalancedJson(RawText(rec_in))
    /\ rec_pc' = "extracted"
    /\ UNCHANGED <<aux_vars, cfg, fp_low, rec_in, rec_bl, filter_vars, request_vars>>

\* _handle_llm_json_or_fallback(text, bl_obj)
HandleStep ==
    /\ rec_pc = "input"
    /\ rec_out' = HandleLlmJsonOrFallback(RawText(rec_in), rec_bl, cfg.BL_FALLBACK)
    /\ rec_pc' = "handled"
    /\ UNCHANGED <<aux_vars, cfg, fp_low, rec_in, rec_bl, filter_vars, request_vars>>

NextRecover == ParseStep \/ ExtractStep \/ HandleStep

SpecRecover == InitRecover /\ [][NextRecover]_vars

(* The template table of one process: loaded at import, then rendered from, *)
(* while prompts.yaml may change on disk                                      *)

InitPrompt ==
    /\ cfg = DefaultConfig
    /\ fp_low = FALSE
    /\ yaml \in BOOLEAN
    /\ file \in Files
    /\ PROMPTS = EmptyDict
    /\ pr_pc = "import" /\ pr_req = NoRender /\ pr_out = FormatError
    /\ FilterIdle /\ RecoverIdle /\ RequestIdle /\ NormIdle /\ LoadIdle /\ MoreIdle

\* the module-level call load_prompts()
LoadPromptsAtImport ==
    /\ pr_pc = "import"
    /\ PROMPTS' = LoadPrompts(yaml, file)
    /\ pr_pc' = "loaded"
    /\ UNCHANGED <<yaml, file, pr_req, pr_out>>
    /\ UNCHANGED <<norm_vars, load_vars, more_vars,
                   cfg, fp_low, filter_vars, recover_vars, request_vars>>

\* prompts.yaml is edited, replaced or removed while the process runs
FileChanges ==
    /\ pr_pc \in {"loaded", "ready", "rendered"}
    /\ \E f \in Files : f # file /\ file' = f
    /\ pr_pc' = "ready"
    /\ UNCHANGED <<yaml, PROMPTS, pr_req, pr_out>>
    /\ UNCHANGED <<norm_vars, load_vars, more_vars,
                   cfg, fp_low, filter_vars, recover_vars, request_vars>>

\* a handler calls render_prompt(name, **kwargs)
RenderPromptCall ==
    /\ pr_pc \in {"loaded", "ready", "rendered"}
    /\ \E name \in RenderNames, kwargs \in KwargsChoices :
        /\ pr_req' = [name |-> name, kwargs |-> kwargs]
        /\ pr_out' = RenderPrompt(PROMPTS, name, kwargs)
    /\ pr_pc' = "rendered"
    /\ UNCHANGED <<yaml, file, PROMPTS>>
    /\ UNCHANGED <<norm_vars, load_vars, more_vars,
                   cfg, fp_low, filter_vars, recover_vars, request_vars>>

NextPrompt == LoadPromptsAtImport \/ FileChanges \/ RenderPromptCall

SpecPrompt == InitPrompt /\ [][NextPrompt]_vars

(* The normalizer applied to bounded lists of raw records *)

InitNormalize ==
    /\ cfg = DefaultConfig
    /\ fp_low = FALSE
    /\ nz_raw = <<>>
    /\ nz_acct \in CallerAccounts
    /\ nz_pc = "build"
    /\ nz_out = NormalizerRaised
    /\ FilterIdle /\ RecoverIdle /\ RequestIdle /\ PromptIdle /\ LoadIdle /\ MoreIdle

\* fetch_transactions returns one more record
AddRaw ==
    /\ nz_pc = "build"
    /\ Len(nz_raw) < MaxRaw
    /\ \E t \in RawRecords : nz_raw' = Append(nz_raw, t)
    /\ UNCHANGED <<nz_acct, nz_pc, nz_out>>
    /\ UNCHANGED <<prompt_vars, load_vars, more_vars,
                   cfg, fp_low, filter_vars, recover_vars, request_vars>>

\* tx = transform_for_agent(raw_txns, acct)
Transform ==
    /\ nz_pc = "build"
    /\ nz_out' = TransformForAgent(nz_raw, nz_acct)
    /\ nz_pc' = "done"
    /\ UNCHANGED <<nz_raw, nz_acct>>
    /\ UNCHANGED <<prompt_vars, load_vars, more_vars,
                   cfg, fp_low, filter_vars, recover_vars, request_vars>>

NextNormalize == AddRaw \/ Transform

SpecNormalize == InitNormalize /\ [][NextNormalize]_vars

(* Requests served by the threads of one process at the same time.  Each   *)
(* request carries a valid transaction list, so its handler reaches the     *)
(* model call unless BL_ONLY is set; what it answers is modelled by Spec.   *)

InitLoad ==
    /\ cfg \in { c \in Configs : ~c.ENV_FAST_MODE /\ c.MAX_TXNS = 30 }
    /\ fp_low = FALSE
    /\ now = 0
    /\ threads = [r \in RequestIds |-> "idle"]
    /\ dispatched = <<>>
    /\ FilterIdle /\ RecoverIdle /\ RequestIdle /\ PromptIdle /\ NormIdle /\ MoreIdle

\* the wall clock advances while the process runs
Tick ==
    /\ now + 20 <= MaxClock
    /\ now' = now + 20
    /\ UNCHANGED <<threads, dispatched>>
    /\ UNCHANGED <<prompt_vars, norm_vars, more_vars,
                   cfg, fp_low, filter_vars, recover_vars, request_vars>>

\* request r arrives and its handler runs up to model.generate_content, which
\* it calls at once; with BL_ONLY it answers without a model call
Dispatch ==
    /\ \E r \in RequestIds :
        /\ threads[r] = "idle"
        /\ IF cfg.BL_ONLY
           THEN threads' = [threads EXCEPT ![r] = "done"] /\ dispatched' = dispatched
           ELSE /\ threads' = [threads EXCEPT ![r] = "calling"]
                /\ dispatched' = Append(dispatched, now)
    /\ UNCHANGED now
    /\ UNCHANGED <<prompt_vars, norm_vars, more_vars,
                   cfg, fp_low, filter_vars, recover_vars, request_vars>>

\* the model call of request r returns or raises; the handler answers
Complete ==
    /\ \E r \in RequestIds :
        /\ threads[r] = "calling"
        /\ threads' = [threads EXCEPT ![r] = "done"]
    /\ UNCHANGED <<now, dispatched>>
    /\ UNCHANGED <<prompt_vars, norm_vars, more_vars,
                   cfg, fp_low, filter_vars, recover_vars, request_vars>>

NextLoad == Tick \/ Dispatch \/ Complete

SpecLoad == InitLoad /\ [][NextLoad]_vars

\* the variables of the insight-agent and of the UI
base_vars == <<cfg, fp_low, filter_vars, recover_vars, request_vars,
               prompt_vars, norm_vars, load_vars>>
BaseIdle ==
    /\ cfg = DefaultConfig /\ fp_low = FALSE
    /\ FilterIdle /\ RecoverIdle /\ RequestIdle /\ PromptIdle /\ NormIdle /\ LoadIdle

(* bl_fraud applied to bounded lists *)

\* amounts in cents on both sides of the two policies: 100000.00 and above,
\* and 10000.00 and above in whole hundreds
FraudAmounts ==
    { -4275, 999900, 1000000, -1000000, 1000050, 9990000,
      10000000, -10000000, 10000050 }

FraudTxns == { Txn("d", "t", a) : a \in FraudAmounts } \cup { NoAmountTxn("d", "t") }

\* longest list given to bl_fraud
MaxFraudLen == 3

InitFraud ==
    /\ BaseIdle /\ ForwardIdle /\ PollIdle /\ RouteIdle
    /\ fr_txns = <<>> /\ fr_pc = "build" /\ fr_out = BlFraud(<<>>)

AddFraudTxn ==
    /\ fr_pc = "build"
    /\ Len(fr_txns) < MaxFraudLen
    /\ \E t \in FraudTxns : fr_txns' = Append(fr_txns, t)
    /\ UNCHANGED <<base_vars, beside_fraud, fr_pc, fr_out>>

ApplyBlFraud ==
    /\ fr_pc = "build"
    /\ fr_out' = BlFraud(fr_txns)
    /\ fr_pc' = "done"
    /\ UNCHANGED <<base_vars, beside_fraud, fr_txns>>

NextFraud == AddFraudTxn \/ ApplyBlFraud

SpecFraud == InitFraud /\ [][NextFraud]_vars

(* The transaction forwarder serving requests one at a time *)

AccountIds == {"1010", "1011226111", "2020"}
AuthHeaders ==
    {NoHeader, Header(""), Header("Bearer tokA"), Header("Bearer tokB"), Header("Basic abc")}
UpstreamBodies == {"[]", "[t1]", "[t1,t2]"}
UpstreamErrorStatuses == {401, 403, 404, 500, 503}
UpstreamFailures == { ErrorStatus(st) : st \in UpstreamErrorStatuses } \cup {NoConnection}

InitForward ==
    /\ BaseIdle /\ FraudIdle /\ PollIdle /\ RouteIdle
    /\ fw_pc = "idle" /\ fw_req = NoForwardReq /\ fw_sent = <<>>
    /\ fw_up = NoOutcome /\ fw_resp = NoForwardResp

\* get_transactions up to requests.get
ReceiveForward ==
    /\ fw_pc = "idle"
    /\ \E account_id \in AccountIds, auth_header \in AuthHeaders :
        /\ fw_req' = [account_id |-> account_id, auth |-> auth_header]
        /\ IF NotAuthHeader(auth_header)
           THEN /\ fw_resp' = ForwardResponse(401, "error", "Authorization header is missing")
                /\ fw_sent' = <<>>
                /\ fw_pc' = "done"
           ELSE /\ fw_resp' = NoForwardResp
                /\ fw_sent' = << UpstreamRequest(account_id, auth_header) >>
                /\ fw_pc' = "sent"
    /\ UNCHANGED <<base_vars, beside_forward, fw_up>>

\* the service answers with a JSON body
UpstreamAnswers ==
    /\ fw_pc = "sent"
    /\ \E json \in UpstreamBodies :
        /\ fw_up' = Answered(json)
        /\ fw_resp' = ForwardResponse(200, "json", json)
    /\ fw_pc' = "done"
    /\ UNCHANGED <<base_vars, beside_forward, fw_req, fw_sent>>

\* the service answers with an error status or cannot be reached
UpstreamFails ==
    /\ fw_pc = "sent"
    /\ \E outcome \in UpstreamFailures :
        /\ RaisesRequestException(outcome)
        /\ fw_up' = outcome
        /\ fw_resp' = ForwardResponse(502, "error",
                           "Failed to communicate with the transaction service.")
    /\ fw_pc' = "done"
    /\ UNCHANGED <<base_vars, beside_forward, fw_req, fw_sent>>

\* the service answers 200 with a body that is not JSON: response.json()
\* raises a RequestException in requests 2.27 and later (502), a plain
\* ValueError before (which leaves the handler: 500)
UpstreamAnswersNotJson ==
    /\ fw_pc = "sent"
    /\ fw_up' = NotJson
    /\ \E status \in {500, 502} : fw_resp' = ForwardResponse(status, "error", "not json")
    /\ fw_pc' = "done"
    /\ UNCHANGED <<base_vars, beside_forward, fw_req, fw_sent>>

\* the response is sent; the process waits for the next request
FinishForward ==
    /\ fw_pc = "done"
    /\ fw_pc' = "idle" /\ fw_req' = NoForwardReq /\ fw_sent' = <<>>
    /\ fw_up' = NoOutcome /\ fw_resp' = NoForwardResp
    /\ UNCHANGED <<base_vars, beside_forward>>

NextForward ==
    ReceiveForward \/ UpstreamAnswers \/ UpstreamFails \/ UpstreamAnswersNotJson
        \/ FinishForward

SpecForward == InitForward /\ [][NextForward]_vars

(* The monitoring agent's main loop *)

\* largest transaction_id the upstream service hands out
MaxTransactionId == 3

TransactionIds == 1..MaxTransactionId

\* the lists a poll can receive: any transactions, each at most once
PollLists ==
    UNION { { l \in [1..n -> TransactionIds] :
                \A i, j \in 1..n : i # j => l[i] # l[j] } : n \in 0..MaxTransactionId }

PollResponses == { Received(l) : l \in PollLists } \cup {RequestError}

InitPoll ==
    /\ BaseIdle /\ FraudIdle /\ ForwardIdle /\ RouteIdle
    /\ last_seen_transaction_id = None /\ pl_pc = "start" /\ pl_resp = RequestError
    /\ pl_ret = <<>> /\ pl_prev = None /\ pl_reported = {} /\ pl_after_failure = FALSE

\* main: jwt = get_jwt() succeeds
GetJwt ==
    /\ pl_pc = "start"
    /\ pl_pc' = "poll"
    /\ UNCHANGED <<base_vars, beside_poll, last_seen_transaction_id, pl_resp, pl_ret,
                   pl_prev, pl_reported, pl_after_failure>>

\* main: get_jwt() returns None and main returns
GetJwtFails ==
    /\ pl_pc = "start"
    /\ pl_pc' = "stopped"
    /\ UNCHANGED <<base_vars, beside_poll, last_seen_transaction_id, pl_resp, pl_ret,
                   pl_prev, pl_reported, pl_after_failure>>

\* main: new_transactions = get_new_transactions(jwt)
PollOnce ==
    /\ pl_pc = "poll"
    /\ \E response \in PollResponses :
        LET result == GetNewTransactions(last_seen_transaction_id, response)
        IN  /\ pl_resp' = response
            /\ pl_ret' = result.returned
            /\ last_seen_transaction_id' = result.last_seen
    /\ pl_prev' = last_seen_transaction_id
    /\ pl_after_failure' = /\ last_seen_transaction_id # None
                            /\ (pl_resp.kind = "error" \/ pl_resp.transactions = <<>>)
    /\ pl_pc' = "analyze"
    /\ UNCHANGED <<base_vars, beside_poll, pl_reported>>

\* main: the returned transactions are analyzed one by one, then sleep
AnalyzeAndSleep ==
    /\ pl_pc = "analyze"
    /\ pl_reported' = pl_reported \cup IdsOf(pl_ret)
    /\ pl_pc' = "poll"
    /\ UNCHANGED <<base_vars, beside_poll, last_seen_transaction_id, pl_resp, pl_ret,
                   pl_prev, pl_after_failure>>

NextPoll == GetJwt \/ GetJwtFails \/ PollOnce \/ AnalyzeAndSleep

SpecPoll == InitPoll /\ [][NextPoll]_vars

(* analyze_spending applied to bounded lists *)

RouteLabels == {LblInbound, LblOutbound, LblRide, LblFoods, LblCoffee}
RouteAmounts == {-4275, 0, 5000}
RouteTxns == { Txn("2024-01-01", lbl, amt) : lbl \in RouteLabels, amt \in RouteAmounts }

\* longest list given to analyze_spending
MaxRouteLen == 3

InitRoute ==
    /\ BaseIdle /\ FraudIdle /\ ForwardIdle /\ PollIdle
    /\ sp_txns = <<>> /\ sp_pc = "build" /\ sp_out = AnalyzeSpending(<<>>)

AddRouteTxn ==
    /\ sp_pc = "build"
    /\ Len(sp_txns) < MaxRouteLen
    /\ \E t \in RouteTxns : sp_txns' = Append(sp_txns, t)
    /\ UNCHANGED <<base_vars, beside_route, sp_pc, sp_out>>

ApplyAnalyzeSpending ==
    /\ sp_pc = "build"
    /\ sp_out' = AnalyzeSpending(sp_txns)
    /\ sp_pc' = "done"
    /\ UNCHANGED <<base_vars, beside_route, sp_txns>>

NextRoute == AddRouteTxn \/ ApplyAnalyzeSpending

SpecRoute == InitRoute /\ [][NextRoute]_vars

-----------------------------------------------------------------------------
(* Properties of the pre-screen (SpecFilter) *)

\* the indexes of the transactions whose absolute amount is above the threshold
ExceedingIndexes(txns) ==
    LET amounts == AbsAmounts(txns)
        sum == SumSeq(amounts)
        var == ScaledVariance(amounts)
    IN  { i \in 1..Len(txns) : ExceedsThreshold(amounts[i], Len(amounts), sum, var, fp_low) }

\* the elements at the indexes I, in index order
Picked(txns, I) ==
    [k \in 1..Cardinality(I) |->
        txns[CHOOSE i \in I : Cardinality({ j \in I : j <= i }) = k]]

\* C1: for a non-empty list the pre-screen with fast_flag = TRUE never returns
\* the empty list, and when no absolute amount exceeds the threshold it returns
\* the input list unchanged
C1_NeverEmpty ==
    (fl_pc = "done" /\ fl_fast /\ fl_txns # <<>>)
        => /\ fl_out # <<>>
           /\ ExceedingIndexes(fl_txns) = {} => fl_out = fl_txns

C1_Witness ==
    /\ fl_pc = "done" /\ fl_fast
    /\ Len(fl_txns) >= 3
    /\ \E i, j \in 1..Len(fl_txns) : AmountOf(fl_txns[i]) # AmountOf(fl_txns[j])
    /\ ExceedingIndexes(fl_txns) = {}
    /\ fl_out = fl_txns

\* C7: with fast = TRUE and some absolute amount above the threshold the
\* pre-screen returns exactly the transactions above it, in input order; with
\* fast = FALSE it returns the input list
C7_ExactlyOutliers ==
    fl_pc = "done"
        => LET I == ExceedingIndexes(fl_txns)
           IN  /\ (fl_fast /\ I # {}) => fl_out = Picked(fl_txns, I)
               /\ ~fl_fast => fl_out = fl_txns

C7_Witness ==
    /\ fl_pc = "done" /\ fl_fast
    /\ Len(fl_out) = 2 /\ fl_out[1] # fl_out[2]
    /\ Len(fl_txns) > Len(fl_out)
    /\ fl_out = Picked(fl_txns, ExceedingIndexes(fl_txns))

\* mu + 3 * max(sigma, 1e-9) > 0 from the parts of the threshold: the mean of
\* absolute amounts is never negative, and the band is 3e-9 when floor is set
\* and 3 * sqrt(var) / n otherwise
ThresholdPositive(thr) ==
    /\ thr.n > 0 /\ thr.sum >= 0 /\ thr.var >= 0
    /\ thr.sum > 0 \/ thr.floor \/ thr.var > 0

\* C21: in the pre-screen sigma is taken as 0 for every list of fewer than 2
\* transactions, and the threshold mean + 3*max(sigma, 1e-9) is strictly
\* greater than 0 for every list for which it is computed
C21_ThresholdPositive ==
    (fl_pc = "done" /\ fl_thr.computed)
        => /\ Len(fl_txns) < 2 => (fl_thr.var = 0 /\ fl_thr.floor)
           /\ ThresholdPositive(fl_thr)

C21_Witness ==
    /\ fl_pc = "done" /\ fl_thr.computed
    /\ Len(fl_txns) = 1 /\ AmountOf(fl_txns[1]) = 0
    /\ fl_thr.sum = 0 /\ fl_thr.var = 0 /\ fl_thr.floor

\* C28 as stated: for every list of at most 10 elements the fast pre-screen
\* flags nothing and returns the full input list
C28_Original ==
    (fl_pc = "done" /\ fl_fast /\ Len(fl_txns) <= 10) => fl_out = fl_txns

-----------------------------------------------------------------------------
(* Properties of the heuristic fraud result (SpecFraud) *)

\* C29: in the result of bl_fraud, overall_risk is "low" exactly when findings
\* is empty, "high" exactly when some transaction has amount >= 100000, and
\* "medium" otherwise; every finding has a non-empty indicators list and a
\* risk_score of 0.6 or 0.9
C29_RiskLevels ==
    fr_pc = "done"
        => LET large == \E i \in 1..Len(fr_txns) : AmountOf(fr_txns[i]) >= 10000000
           IN  /\ fr_out.overall_risk = "low" <=> fr_out.findings = <<>>
               /\ fr_out.overall_risk = "high" <=> large
               /\ fr_out.overall_risk = "medium" <=> (fr_out.findings # <<>> /\ ~large)
               /\ \A i \in 1..Len(fr_out.findings) :
                      /\ fr_out.findings[i].indicators # <<>>
                      /\ fr_out.findings[i].risk_score \in {60, 90}

C29_Witness ==
    /\ fr_pc = "done" /\ Len(fr_txns) = 3
    /\ AmountOf(fr_txns[1]) = -10000000
    /\ AmountOf(fr_txns[2]) = 10000000
    /\ AmountOf(fr_txns[3]) = -4275
    /\ fr_out.overall_risk = "high"
    /\ Len(fr_out.findings) = 2
    /\ fr_out.findings[1].risk_score = 60 /\ fr_out.findings[2].risk_score = 90

-----------------------------------------------------------------------------
(* Properties of the transaction forwarder (SpecForward) *)

\* C22: GET /transactions/<account_id> does header passthrough only: the
\* Authorization header sent upstream equals the inbound one, a request
\* without that header is answered 401 with no upstream request made, and any
\* upstream request failure is answered 502
C22_Passthrough ==
    fw_pc \in {"sent", "done"}
        => /\ \A i \in 1..Len(fw_sent) :
                  /\ fw_req.auth.present
                  /\ fw_sent[i].headers = [Authorization |-> fw_req.auth.v]
           /\ ~fw_req.auth.present
                  => (fw_sent = <<>> /\ fw_pc = "done" /\ fw_resp.status = 401)
           /\ (fw_pc = "done" /\ fw_up.kind \in {"http_error", "connection_error"})
                  => fw_resp.status = 502

C22_Witness ==
    /\ fw_pc = "done"
    /\ fw_req.auth = Header("Bearer tokB")
    /\ Len(fw_sent) = 1 /\ fw_sent[1].headers.Authorization = "Bearer tokB"
    /\ fw_up = ErrorStatus(404)
    /\ fw_resp.status = 502

-----------------------------------------------------------------------------
(* Properties of the monitoring agent (SpecPoll) *)

\* the transactions a list holds after the first occurrence of id
After(transactions, id) ==
    LET at == CHOOSE i \in 1..Len(transactions) :
                  /\ transactions[i] = id
                  /\ \A j \in 1..(i - 1) : transactions[j] # id
    IN  [k \in 1..(Len(transactions) - at) |-> transactions[at + k]]

\* C25 as stated: no transaction returned by one poll is returned again by a
\* later poll, and no transaction the upstream list holds after the last-seen
\* one is skipped
C25_Original ==
    pl_pc = "analyze"
        => /\ IdsOf(pl_ret) \cap pl_reported = {}
           /\ (pl_resp.kind = "list" /\ pl_prev \in IdsOf(pl_resp.transactions))
                  => pl_ret = After(pl_resp.transactions, pl_prev)

\* C26: after every poll that received a non-empty list, the global
\* last_seen_transaction_id is the transaction_id of the last element of the
\* list, whether the previous last-seen id was found in the list, was its last
\* element, or was absent from it
C26_LastSeenIsLast ==
    (pl_pc = "analyze" /\ pl_resp.kind = "list" /\ pl_resp.transactions # <<>>)
        => last_seen_transaction_id = pl_resp.transactions[Len(pl_resp.transactions)]

C26_Witness ==
    /\ pl_pc = "analyze" /\ pl_resp.kind = "list"
    /\ pl_prev = 3 /\ pl_resp.transactions = <<2, 1>>
    /\ last_seen_transaction_id = 1

\* C27: a poll that fails with a request error or receives an empty list
\* returns the empty list and leaves last_seen_transaction_id unchanged, so
\* the next successful poll still returns every transaction after the
\* previously seen one
C27_FailedPollKeeps ==
    pl_pc = "analyze"
        => /\ (pl_resp.kind = "error" \/ pl_resp.transactions = <<>>)
                  => (pl_ret = <<>> /\ last_seen_transaction_id = pl_prev)
           /\ (pl_after_failure /\ pl_resp.kind = "list"
                   /\ pl_prev \in IdsOf(pl_resp.transactions))
                  => pl_ret = After(pl_resp.transactions, pl_prev)

C27_Witness ==
    /\ pl_pc = "analyze" /\ pl_after_failure
    /\ pl_prev = 1 /\ pl_resp = Received(<<1, 2, 3>>)
    /\ pl_ret = <<2, 3>> /\ last_seen_transaction_id = 3

-----------------------------------------------------------------------------
(* Properties of the spending route (SpecRoute) *)

\* the total a transaction belongs to by sign and label prefix
TotalFor(t) ==
    IF IsTransfer(t.label)
    THEN (IF AmountOf(t) > 0 THEN "transfers_in" ELSE "transfers_out")
    ELSE IF AmountOf(t) > 0 THEN "income"
    ELSE IF AmountOf(t) < 0 THEN "expenses"
    ELSE "none"

\* the sum of the absolute amounts of the transactions belonging to a total
SumFor(tx, total) ==
    SumSeq([i \in 1..Len(tx) |-> IF TotalFor(tx[i]) = total THEN Abs(AmountOf(tx[i])) ELSE 0])

\* C30: in analyze_spending every transaction is counted in exactly one of
\* income, transfers_in, transfers_out and expenses (zero-amount non-transfer
\* records in none), so that before rounding
\* net = income - expenses - transfers_out + transfers_in equals the sum of
\* all signed transaction amounts
C30_NetIsSum ==
    sp_pc = "done"
        => /\ Len(sp_out.totals.counted) = Len(sp_txns)
           /\ \A i \in 1..Len(sp_txns) : sp_out.totals.counted[i] = TotalFor(sp_txns[i])
           /\ sp_out.totals.income = SumFor(sp_txns, "income")
           /\ sp_out.totals.tin = SumFor(sp_txns, "transfers_in")
           /\ sp_out.totals.tout = SumFor(sp_txns, "transfers_out")
           /\ sp_out.totals.expenses = SumFor(sp_txns, "expenses")
           /\ sp_out.net = SumSeq([i \in 1..Len(sp_txns) |-> AmountOf(sp_txns[i])])

C30_Witness ==
    /\ sp_pc = "done" /\ Len(sp_txns) = 3
    /\ sp_txns[1].label = LblRide /\ AmountOf(sp_txns[1]) = -4275
    /\ sp_txns[2].label = LblInbound /\ AmountOf(sp_txns[2]) = 5000
    /\ sp_txns[3].label = LblCoffee /\ AmountOf(sp_txns[3]) = 0
    /\ sp_out.totals.counted = <<"expenses", "transfers_in", "none">>
    /\ sp_out.net = 725

-----------------------------------------------------------------------------
(* Properties of response recovery (SpecRecover) *)

\* neither the fence-stripped text nor its balanced candidate parses
NoJsonValue(text) ==
    LET cleaned == CleanFences(text)
        candidate == ExtractBalancedJson(cleaned)
    IN  /\ ~JsonLoads(cleaned).ok
        /\ ~(candidate.found /\ JsonLoads(candidate.str).ok)

\* the text has something other than blanks in it
IsProse(s) == Strip(s) # <<>>

\* the object the JSON text body denotes
ObjectOf(body) == [isnone |-> FALSE, val |-> JsonLoads(body).val]

\* C2 as stated: when the text yields no JSON value, recovery returns the
\* supplied heuristic object with status 200
C2_Original ==
    (rec_pc = "handled" /\ NoJsonValue(RawText(rec_in)))
        => rec_out = JsonResponse("dict", rec_bl)

\* C2: when the text yields no JSON value, recovery answers 200 and never an
\* error; the body is the supplied heuristic object when BL_FALLBACK is on and
\* the generic fallback object when it is off
C2_FallbackByToggle ==
    (rec_pc = "handled" /\ NoJsonValue(RawText(rec_in)))
        => /\ rec_out.status = 200
           /\ rec_out.body.kind = "dict"
           /\ cfg.BL_FALLBACK => rec_out.body.val = rec_bl
           /\ ~cfg.BL_FALLBACK => rec_out.body.val = GenericFallback

C2_Witness ==
    /\ rec_pc = "handled"
    /\ rec_in = [pre |-> <<>>, wrap |-> "none", body |-> TxtProse, post |-> <<>>]
    /\ NoJsonValue(RawText(rec_in))
    /\ cfg.BL_FALLBACK
    /\ rec_out = JsonResponse("dict", rec_bl)

\* C4 as stated: a JSON object with prose before and after it is recovered as
\* that object
C4_Original ==
    (/\ rec_pc = "parsed"
     /\ rec_in.body \in JsonObjects /\ rec_in.wrap = "none"
     /\ IsProse(rec_in.pre) /\ IsProse(rec_in.post))
        => rec_out = ObjectOf(rec_in.body)

\* C5: when the first opening brace of the text is that of a JSON object, the
\* balanced-brace extraction returns exactly that object, whatever braces,
\* brackets and escaped quotes its string values hold and whatever follows it
C5_WholeObject ==
    (/\ rec_pc = "extracted"
     /\ rec_in.body \in JsonObjects
     /\ FirstOpener(RawText(rec_in), 1) = Len(rec_in.pre) + Len(OpenFence(rec_in.wrap)) + 1)
        => rec_out = [found |-> TRUE, str |-> rec_in.body]

C5_Witness ==
    /\ rec_pc = "extracted"
    /\ rec_in.body = ObjEscQuote
    /\ rec_in.pre = <<"say", SP, QUOTE, "hi", SP>>
    /\ rec_in.post = <<SP, "}">>
    /\ rec_out = [found |-> TRUE, str |-> ObjEscQuote]

\* C6 as stated: a JSON object wrapped in code fences is recovered as that
\* object
C6_Original ==
    (/\ rec_pc = "parsed"
     /\ rec_in.body \in JsonObjects /\ rec_in.wrap # "none"
     /\ rec_in.pre = <<>> /\ rec_in.post = <<>>)
        => rec_out = ObjectOf(rec_in.body)

-----------------------------------------------------------------------------
(* Properties of the endpoints (Spec) *)

KeyName(tok) == IF Len(tok) = 2 THEN tok[2] ELSE "other"

\* the keys of the JSON object whose members start at token i
RECURSIVE MemberKeys(_, _)
MemberKeys(t, i) ==
    IF i > Len(t) \/ ~IsStringTok(t[i]) THEN {}
    ELSE LET e == ValueEnd(t, i + 2)
         IN  {KeyName(t[i])}
             \cup (IF e # 0 /\ e <= Len(t) /\ t[e] = <<",">>
                   THEN MemberKeys(t, e + 1) ELSE {})

\* the tokens of the value of member key of the object whose members start at i
RECURSIVE MemberValue(_, _, _)
MemberValue(t, i, key) ==
    IF i > Len(t) \/ ~IsStringTok(t[i]) THEN <<>>
    ELSE LET e == ValueEnd(t, i + 2)
         IN  IF e = 0 THEN <<>>
             ELSE IF KeyName(t[i]) = key THEN SubSeq(t, i + 2, e - 1)
             ELSE IF e <= Len(t) /\ t[e] = <<",">> THEN MemberValue(t, e + 1, key)
             ELSE <<>>

\* the top-level keys of a response body
KeysOf(body) ==
    IF body.kind = "dict" THEN DOMAIN body.val
    ELSE IF body.kind = "json" /\ body.val[1] = <<"{">> THEN MemberKeys(body.val, 2)
    ELSE {}

RiskLevels == {"low", "medium", "high"}

\* the list the prompt of the request in hand is cut from
PromptSource == IF req.endpoint = "fraud" THEN local.txns_for_prompt ELSE local.txns

\* C23: the prompt never contains more than MAX_TXNS transactions: the coach
\* and spending prompts carry the first MAX_TXNS transactions of the request,
\* the fraud prompt the first MAX_TXNS of the pre-screened list, in input order
C23_PromptCapped ==
    pc = "calling"
        => LET sent == local.prompt.transactions
           IN  /\ Len(sent) <= cfg.MAX_TXNS
               /\ Len(sent) = cfg.MAX_TXNS \/ Len(sent) = Len(PromptSource)
               /\ \A i \in 1..Len(sent) : sent[i] = PromptSource[i]

C23_Witness ==
    /\ pc = "calling" /\ req.endpoint = "fraud"
    /\ local.txns = LSpikes /\ Len(local.txns_for_prompt) = 2
    /\ cfg.MAX_TXNS = 1
    /\ local.prompt.transactions = << LSpikes[5] >>

\* the values of the fast query parameter that ask for the pre-screen
AsksFast(v) == v \in {"1", "true", "TRUE", "True", "yes", "YES", "y", "Y"}

\* the pre-screened list: the transactions above the threshold in input
\* order, or the whole list when there is none
Screened(txns) ==
    LET I == ExceedingIndexes(txns)
    IN  IF I = {} THEN txns ELSE Picked(txns, I)

\* C24: on the fraud endpoint the fast query parameter, when present, decides
\* whether the pre-screen runs (for 1, true, yes, y in any case) and overrides
\* the configured default, which applies when the parameter is absent; the
\* pre-screen is applied on no other endpoint
C24_FastDecides ==
    pc = "calling"
        => LET runs == IF req.fast_qs.present THEN AsksFast(req.fast_qs.v)
                       ELSE cfg.ENV_FAST_MODE
           IN  local.txns_for_prompt =
                   IF req.endpoint = "fraud" /\ runs THEN Screened(local.txns)
                   ELSE local.txns

C24_Witness ==
    /\ pc = "calling" /\ req.endpoint = "fraud"
    /\ cfg.ENV_FAST_MODE /\ req.fast_qs.present /\ req.fast_qs.v = "0"
    /\ local.txns = LSpikes /\ local.txns_for_prompt = LSpikes

RiskOk(body) ==
    IF body.kind = "dict" THEN body.val.overall_risk \in RiskLevels
    ELSE body.kind = "json"
         /\ MemberValue(body.val, 2, "overall_risk") \in { << <<QUOTE, r>> >> : r \in RiskLevels }

RequiredKeys(endpoint) ==
    IF endpoint = "coach" THEN {"summary", "buckets", "tips"}
    ELSE IF endpoint = "spending" THEN {"summary", "top_categories", "unusual_transactions"}
    ELSE {"findings", "overall_risk", "summary"}

SchemaValid(endpoint, body) ==
    /\ RequiredKeys(endpoint) \subseteq KeysOf(body)
    /\ endpoint = "fraud" => RiskOk(body)

\* C3 as stated: every 200 response of an endpoint satisfies that endpoint's
\* schema, whether parsed from the model's text or computed by the heuristic
C3_Original ==
    (pc = "done" /\ resp.status = 200) => SchemaValid(req.endpoint, resp.body)

\* the model call of the finished request raised
ModelCallFailed == pc = "done" /\ calls = 1 /\ OutcomeOf(1) # "ok"

NegatedNegatives(txns) ==
    [i \in 1..Len(txns) |-> IF AmountOf(txns[i]) < 0 THEN -AmountOf(txns[i]) ELSE 0]
Positives(txns) ==
    [i \in 1..Len(txns) |-> IF AmountOf(txns[i]) > 0 THEN AmountOf(txns[i]) ELSE 0]

\* the body carries the heuristic spending totals of txns
HeuristicTotals(body, txns) ==
    /\ body.kind = "dict"
    /\ body.val.summary.spending = SumSeq(NegatedNegatives(txns))
    /\ body.val.summary.income = SumSeq(Positives(txns))
    /\ TotalOf(body.val.top_categories, "Expenses") = SumSeq(NegatedNegatives(txns))
    /\ TotalOf(body.val.top_categories, "Income") = SumSeq(Positives(txns))
    /\ (txns = LFresh) => (body.val.summary.spending = 4275 /\ body.val.summary.income = 0)

\* C8 as stated: when the model call of a spending request fails, the answer
\* is 200 with the heuristic totals
C8_Original ==
    (ModelCallFailed /\ req.endpoint = "spending" /\ ~Raises(local.txns))
        => resp.status = 200 /\ HeuristicTotals(resp.body, local.txns)

\* C8: when the model call of a spending request fails and BL_FALLBACK is on
\* (its default), the answer is 200 with the heuristic totals (expenses the sum
\* of the negated negative amounts, income the sum of the positive ones); with
\* BL_FALLBACK and BL_ONLY off the answer is the error, status 500
C8_FallbackTotals ==
    (ModelCallFailed /\ req.endpoint = "spending" /\ ~Raises(local.txns))
        => IF cfg.BL_FALLBACK
           THEN resp.status = 200 /\ HeuristicTotals(resp.body, local.txns)
           ELSE resp.status = 500 /\ resp.body.kind = "error"

C8_Witness ==
    /\ ModelCallFailed
    /\ req.endpoint = "spending"
    /\ local.txns = LFresh
    /\ upstream = [rl |-> 0, then |-> "error"]
    /\ resp.status = 200
    /\ resp.body.val.summary = [income |-> 0, spending |-> 4275]

\* missing, empty or malformed transaction input
MalformedInput(p) ==
    \/ p.kind \in {"none", "scalar"}
    \/ p.kind = "dict" /\ p.txkind # "list"
    \/ p.items = <<>>
    \/ \E i \in 1..Len(p.items) : ~p.items[i].isdict

\* C9 as stated: a bare array and an object with a transactions key are both
\* accepted, and missing, empty or malformed transaction input is answered 400
\* without a model call
C9_Original ==
    pc = "done"
        => IF MalformedInput(req.payload)
           THEN resp.status = 400 /\ calls = 0
           ELSE resp.status # 400

\* C10 as stated: a call answered by 3 rate-limit errors and then success is
\* retried 3 times and succeeds
C10_Original ==
    (pc = "done" /\ calls > 0 /\ upstream = [rl |-> 3, then |-> "ok"])
        => calls = 4 /\ resp.status = 200 /\ resp.body.kind = "json"

\* every model call the finished request made was answered with a rate-limit
\* error
AllRateLimited == \A k \in 1..calls : OutcomeOf(k) = "rate_limit"

\* C11 as stated: a request ends in the distinct failure answered 429 exactly
\* when every attempt of its model call ended in a rate-limit error; every
\* other failure is answered 502 or 500
C11_Original ==
    (pc = "done" /\ calls > 0) => (resp.status = 429 <=> AllRateLimited)

C15_Original ==
    (pc = "done" /\ calls > 0) => resp.status \in {200, 429}

-----------------------------------------------------------------------------
(* Properties of concurrent requests (SpecLoad) *)

\* a requests-per-minute cap M and a permit pool size N that the load can
\* exceed
RateCap == MaxRequests - 1
PermitPool == MaxRequests - 1

\* model calls dispatched in the 60 seconds up to now
InWindow == { i \in 1..Len(dispatched) : now - dispatched[i] < 60 }

\* C13 as stated: never more than M model calls are dispatched within any
\* sliding 60-second window of one process; the (M+1)th call waits until the
\* window has room
C13_Original == Cardinality(InWindow) <= RateCap

\* model calls in flight
InFlight == { r \in RequestIds : threads[r] = "calling" }

\* C14 as stated: with several requests in flight in one process, at most N
\* model calls are in flight at any time, each holding one permit of the pool
C14_Original == Cardinality(InFlight) <= PermitPool

-----------------------------------------------------------------------------
(* Properties of the prompt templates (SpecPrompt) *)

\* A template described by its parts: literal text, a placeholder {v}, an
\* escaped opening brace, an escaped closing brace
TextPart(v) == [kind |-> "text", v |-> v]
FieldPart(v) == [kind |-> "field", v |-> v]
OpenPart == [kind |-> "open", v |-> "{"]
ClosePart == [kind |-> "close", v |-> "}"]

\* a placeholder with an index or a format specification after the name
IndexedPart(v) == [kind |-> "indexed", v |-> v]
PaddedPart(v) == [kind |-> "padded", v |-> v]

\* how a part is written in a template
WrittenAs(part) ==
    IF part.kind = "text" THEN <<part.v>>
    ELSE IF part.kind = "field" THEN <<"{", part.v, "}">>
    ELSE IF part.kind = "indexed" THEN <<"{", part.v, IndexZero, "}">>
    ELSE IF part.kind = "padded" THEN <<"{", part.v, PadThree, "}">>
    ELSE <<part.v, part.v>>

\* what a part must render as under the keyword substitutions kwargs: a
\* placeholder without a substitution as the empty string, a placeholder with
\* one as its value (its first character when indexed)
RendersAs(part, kwargs) ==
    IF part.kind \in {"field", "indexed", "padded"} THEN
        IF part.v \notin DOMAIN kwargs THEN <<>>
        ELSE IF part.kind = "indexed" THEN <<kwargs[part.v][1]>>
        ELSE kwargs[part.v]
    ELSE <<part.v>>

RECURSIVE Concat(_, _)
Concat(seqs, i) == IF i = 0 THEN <<>> ELSE Concat(seqs, i - 1) \o seqs[i]

TemplateOf(parts) == Concat([i \in 1..Len(parts) |-> WrittenAs(parts[i])], Len(parts))
ExpectedText(parts, kwargs) ==
    Concat([i \in 1..Len(parts) |-> RendersAs(parts[i], kwargs)], Len(parts))

\* the templates of the table, by their parts
PlaceholderTemplates ==
    { <<>>,
      <<TextPart("None")>>,
      <<TextPart("7")>>,
      <<TextPart("No placeholder at all.")>>,
      <<TextPart("You are a helpful coach.\nReturn JSON with keys summary, buckets, tips.\nTransactions:\n"),
        FieldPart("transactions"), TextPart("\n")>>,
      <<TextPart("You analyze spending.\nReturn JSON with summary, top_categories, unusual_transactions.\nTransactions:\n"),
        FieldPart("transactions"), TextPart("\n")>>,
      <<TextPart("You detect fraud.\nTransactions:\n"), FieldPart("transactions"), TextPart("\n"),
        FieldPart("account_context"),
        TextPart("\nReturn JSON with findings, overall_risk, summary.\n")>>,
      <<TextPart("Coach v2. Transactions: "), FieldPart("transactions")>>,
      <<TextPart("Fraud v2 "), OpenPart, TextPart("literal"), ClosePart, TextPart(" "),
        FieldPart("transactions"), TextPart(" "), FieldPart("account_context"), TextPart(" "),
        FieldPart("region"), TextPart(".")>>,
      <<TextPart("Spending v2 "), FieldPart("transactions"), FieldPart("transactions")>> }

\* templates with a placeholder that is more than a name
CompoundTemplates ==
    { <<TextPart("Region "), IndexedPart("region"), TextPart(" "), FieldPart("transactions")>>,
      <<TextPart("Ctx "), PaddedPart("account_context"), TextPart("|")>> }

\* templates with a brace that is neither doubled nor part of a placeholder
BrokenTemplates == {TmplStrayOpen, TmplStrayClose, TmplPositional}

\* C18 as stated: render_prompt never raises on a missing substitution key:
\* every placeholder without a keyword substitution renders as the empty
\* string and every supplied placeholder is replaced by its value
C18_Original ==
    pr_pc = "rendered" =>
        \A parts \in PlaceholderTemplates \cup CompoundTemplates :
            TemplateOf(parts) = PromptsGet(PROMPTS, pr_req.name)
                => pr_out = [ok |-> TRUE, text |-> ExpectedText(parts, pr_req.kwargs)]

\* C18: render_prompt never raises on a missing substitution key of a plain
\* placeholder: in a template made of text, escaped braces and {name}
\* placeholders, every placeholder without a keyword substitution renders as
\* the empty string and every supplied placeholder is replaced by its value
\* (a template of the table is either such a template, or one with a compound
\* placeholder, or one with a stray brace, which raises)
C18_SafeRender ==
    pr_pc = "rendered" =>
        LET tmpl == PromptsGet(PROMPTS, pr_req.name)
        IN  \/ \E parts \in PlaceholderTemplates :
                /\ TemplateOf(parts) = tmpl
                /\ pr_out = [ok |-> TRUE, text |-> ExpectedText(parts, pr_req.kwargs)]
            \/ \E parts \in CompoundTemplates : TemplateOf(parts) = tmpl
            \/ tmpl \in BrokenTemplates /\ ~pr_out.ok

\* the fraud template of prompts.yaml rendered with transactions only:
\* account_context and region are missing
C18_Witness ==
    /\ pr_pc = "rendered"
    /\ pr_req = [name |-> "fraud_detect", kwargs |-> [transactions |-> TxnsText]]
    /\ PROMPTS["fraud_detect"] = TmplFraudV2
    /\ pr_out.ok
    /\ pr_out.text = <<"Fraud v2 ", "{", "literal", "}", " ">> \o TxnsText \o <<" ", " ", ".">>

\* C19 as stated: a change of prompts.yaml is observable at the next render
\* without a restart: render_prompt returns what the template now in the
\* file (or the default, where the file gives none) renders to
C19_Original ==
    pr_pc = "rendered"
        => pr_out = RenderPrompt(LoadPrompts(yaml, file), pr_req.name, pr_req.kwargs)

\* the external source gives no templates
SourceUnavailable ==
    ~yaml \/ file.kind \in {"missing", "unreadable", "invalid", "scalar", "empty"}

\* C20: after load_prompts, in every outcome, the table holds a template for
\* coach, spending_analyze and fraud_detect; when the source is unavailable
\* the table is the in-code defaults, and when it is a mapping each of its
\* keys overrides or adds a template and the other defaults stay
C20_ThreeTemplates ==
    /\ pr_pc \notin {"off", "import"} => PromptNames \subseteq DOMAIN PROMPTS
    /\ pr_pc = "loaded" =>
        IF SourceUnavailable
        THEN /\ DOMAIN PROMPTS = PromptNames
             /\ \A n \in PromptNames :
                    /\ PROMPTS[n] = DefaultPrompts[n]
                    /\ \E i \in 1..Len(PROMPTS[n]) - 2 :
                        SubSeq(PROMPTS[n], i, i + 2) = <<"{", "transactions", "}">>
        ELSE /\ DOMAIN PROMPTS = PromptNames \cup DOMAIN file.map
             /\ \A n \in DOMAIN file.map : PROMPTS[n] = StrOfYaml(file.map[n])
             /\ \A n \in PromptNames \ DOMAIN file.map : PROMPTS[n] = DefaultPrompts[n]

\* prompts.yaml gives only the coach template
C20_Witness ==
    /\ pr_pc = "loaded"
    /\ yaml
    /\ file = FileOf("mapping", [coach |-> YamlStr(TmplCoachV2)])
    /\ PROMPTS["coach"] = TmplCoachV2
    /\ DOMAIN PROMPTS = {"coach", "spending_analyze", "fraud_detect"}
    /\ PROMPTS["fraud_detect"][2] = "{" /\ PROMPTS["fraud_detect"][3] = "transactions"

-----------------------------------------------------------------------------
(* Properties of the normalizer (SpecNormalize) *)

\* the record's toAccountNum, as text, is the caller's account id
ToCaller(t, acct) == StrOfValue(GetOr(t.toAccountNum, PyStr(<<>>))) = StrOfValue(acct)

AllRecords(raw) == \A i \in 1..Len(raw) : raw[i].isdict

\* C16 as stated: every raw record whose toAccountNum equals the caller's
\* account id becomes a transaction with a positive amount and a label
\* starting with "Inbound from ", every other record one with a negative
\* amount and a label starting with "Outbound to "; one transaction per raw
\* record, in input order
C16_Original ==
    (nz_pc = "done" /\ AllRecords(nz_raw)) =>
        /\ nz_out.ok
        /\ Len(nz_out.out) = Len(nz_raw)
        /\ \A i \in 1..Len(nz_raw) :
            /\ nz_out.out[i].date = NormalizeTs(GetOr(nz_raw[i].timestamp, PyStr(<<>>)).text)
            /\ IF ToCaller(nz_raw[i], nz_acct)
               THEN nz_out.out[i].amount > 0 /\ nz_out.out[i].label[1] = "Inbound from "
               ELSE nz_out.out[i].amount < 0 /\ nz_out.out[i].label[1] = "Outbound to "

\* the amount of the record is missing or is not a number
AmountMissingOrMalformed(t) == ~GetOr(t.amount, PyNull).numeric

\* C17 as stated: the normalizer raises no exception; a raw record whose
\* amount is missing or malformed is normalized with amount zero
C17_Original ==
    (/\ nz_pc = "done"
     /\ AllRecords(nz_raw)
     /\ \A i \in 1..Len(nz_raw) : nz_raw[i].timestamp.kind \in {"str", "absent"}) =>
        /\ nz_out.ok
        /\ \A i \in 1..Len(nz_raw) :
            AmountMissingOrMalformed(nz_raw[i]) => nz_out.out[i].amount = 0

=============================================================================
